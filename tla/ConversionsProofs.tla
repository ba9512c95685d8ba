------------------------- MODULE ConversionsProofs --------------------------
(***************************************************************************)
(* Proofs about Conversions: the message builders and parsers, for every   *)
(* length, every width of the size fields and every list, and              *)
(* nv_data-imei, for every command line, every IMEI of odd length and      *)
(* every file.                                                             *)
(*                                                                         *)
(* Builders: what was copied and what is left to copy add up to the room   *)
(* that the size function asked for.  Parsers of one payload decide in one *)
(* step; the walk through a list stands at the beginning of an entry or    *)
(* has left the message for good.                                          *)
(*                                                                         *)
(* nv_data-imei.  The command line: argc is the number of argv's elements, *)
(* and each token takes one or two of them (Taken); what the loop has set  *)
(* is what the tokens read so far say (SeenInv).  Writing: decoding an     *)
(* encoded IMEI gives it back (DecodeEncode), and a write changes its own  *)
(* bytes only (SplicedFacts).  Searching: the places before the pointer    *)
(* that match are the places shown (SearchInv).                            *)
(***************************************************************************)
EXTENDS Conversions, TLAPS, SequenceTheorems, FiniteSetTheorems,
        WellFoundedInduction

(* A pointer to nothing. *)
Null == Codec!Null
(* The bytes still to be copied; there are never more than four parts. *)
PartAt(s, k) == IF k <= Len(s) THEN s[k] ELSE 0
Left(s) == PartAt(s, 1) + PartAt(s, 2) + PartAt(s, 3) + PartAt(s, 4)

(* What is copied in the end: the item of rfs.c has no room of its own. *)
Total(c, a, room) == IF c = "rfs_nv_read_item" THEN room + a ELSE room

(* A builder: what is copied and what is left to copy are what the size    *)
(* function made room for.                                                 *)
BuildInv ==
    call \in Codec!Builders =>
        /\ first \in Nat /\ second \in Nat
        /\ alloc \in Nat /\ n \in Nat
        /\ pc \in {"call", "copy", "done"}
        /\ pc = "call" => alloc = 0 /\ n = 0 /\ at = Null
        /\ pc = "copy" => /\ parts \in Seq(Nat) /\ Len(parts) <= 4 /\ at = Null
                          /\ n + Left(parts) = Total(call, first, alloc)
        /\ pc = "done" => \/ at = Null /\ n = 0 /\ alloc = 0
                          \/ n = Total(call, first, alloc)

(* A filler of a fixed field. *)
FillInv ==
    call \in Codec!Fillers =>
        /\ first \in Nat /\ pc \in {"call", "done"}
        /\ pc = "done" /\ call = "text_with_length" => length = n /\ n <= Field

(* A parser of one payload: its message, and what it found. *)
ExtractInv ==
    call \in Codec!Extractors =>
        /\ size \in Nat /\ size < SizeRange /\ length \in Nat
        /\ pc \in {"call", "done"}
        /\ Codec!FoundInside

(* The walk stands at the beginning of an entry, or it has left the        *)
(* message at an entry that is not all there, and will not come back.      *)
ListInv ==
    call = "list_entry" =>
        /\ list \in Lists /\ size \in Nat /\ index \in Nat
        /\ pc \in {"call", "walk", "done"}
        /\ pc = "walk" =>
              /\ index < Codec!Count /\ i \in 0..(index + 1) /\ offset \in Nat
              /\ \/ offset = list[i + 1] /\ (i > 0 => entry = list[i])
                 \/ offset > size /\ list[i + 1] > size
        /\ pc = "call" => at = Null
        /\ Codec!EntryIsThere

(* The inductive invariant of the codecs. *)
CodecInv ==
    /\ call \in Codec!Builders \union Codec!Fillers \union Codec!Extractors
                \union {"list_entry"}
    /\ BuildInv /\ FillInv /\ ExtractInv /\ ListInv

(* What is assumed of the sizes. *)
LEMMA Sizes ==
    /\ ByteRange \in Nat \ {0} /\ SizeRange \in Nat \ {0} /\ MaxSize \in Nat
    /\ Header \in Nat \ {0} /\ Entry \in Nat \ {0} /\ Field \in Nat
    /\ MaxSize + Header < SizeRange
  BY CodecAssumption DEF Codec!SizesAssumption

(* What is left of a message of two parts. *)
LEMMA TwoParts ==
    ASSUME NEW x \in Nat, NEW y \in Nat
    PROVE  /\ <<x, y>> \in Seq(Nat) /\ Len(<<x, y>>) <= 4
           /\ Left(<<x, y>>) = x + y
  BY DEF Left, PartAt

(* What is left of a message of four parts. *)
LEMMA FourParts ==
    ASSUME NEW x \in Nat, NEW y \in Nat, NEW z \in Nat, NEW w \in Nat
    PROVE  /\ <<x, y, z, w>> \in Seq(Nat) /\ Len(<<x, y, z, w>>) <= 4
           /\ Left(<<x, y, z, w>>) = x + y + z + w
  BY DEF Left, PartAt

(* The setup functions copy exactly what their size functions count: case  *)
(* by case, for every length.                                              *)
LEMMA PartsFit ==
    ASSUME NEW c \in Codec!Builders, NEW a \in Nat, NEW b \in Nat,
           Codec!Parts(c, a, b) # <<>>
    PROVE  /\ Codec!SizeSetup(c, a, b) \in Nat
           /\ Codec!Parts(c, a, b) \in Seq(Nat) /\ Len(Codec!Parts(c, a, b)) <= 4
           /\ Left(Codec!Parts(c, a, b)) = Total(c, a, Codec!SizeSetup(c, a, b))
  <1>1. CASE c \in {"sms_send_msg", "sms_save_msg"}
    <2>1. /\ Codec!Parts(c, a, b) = <<Header, 1, a, b>>
          /\ Codec!SizeSetup(c, a, b) = Header + 1 + a + b
      BY <1>1 DEF Codec!Parts, Codec!SizeSetup
    <2>2. QED
      BY <1>1, <2>1, Sizes, FourParts DEF Total
  <1>2. CASE c = "rsim_access"
    <2>1. /\ Codec!Parts(c, a, b) = <<Header, a>>
          /\ Codec!SizeSetup(c, a, b) = Header + a
      BY <1>2 DEF Codec!Parts, Codec!SizeSetup
    <2>2. Total(c, a, Header + a) = Header + a
      BY <1>2 DEF Total
    <2>3. QED
      BY <2>1, <2>2, Sizes, TwoParts
  <1>3. CASE c = "burst_dtmf"
    <2> DEFINE tones == (a % ByteRange) * Entry
    <2>1. tones \in Nat
      BY Sizes
    <2>2. /\ Codec!Parts(c, a, b) = <<1, tones>>
          /\ Codec!SizeSetup(c, a, b) = 1 + tones
      BY <1>3 DEF Codec!Parts, Codec!SizeSetup
    <2> HIDE DEF tones
    <2>3. Total(c, a, 1 + tones) = 1 + tones
      BY <1>3 DEF Total
    <2>4. QED
      BY <2>1, <2>2, <2>3, TwoParts
  <1>4. CASE c = "rfs_nv_read_item"
    <2>1. /\ Codec!Parts(c, a, b) = <<Header, a>>
          /\ Codec!SizeSetup(c, a, b) = Header
      BY <1>4 DEF Codec!Parts, Codec!SizeSetup
    <2>2. QED
      BY <1>4, <2>1, Sizes, TwoParts DEF Total
  <1>5. QED
    BY <1>1, <1>2, <1>3, <1>4 DEF Codec!Builders

(* A part has a size. *)
LEMMA PartIsNat ==
    ASSUME NEW s \in Seq(Nat), NEW k \in Nat \ {0}
    PROVE  PartAt(s, k) \in Nat
  BY DEF PartAt

(* What is left has a size. *)
LEMMA LeftIsNat ==
    ASSUME NEW s \in Seq(Nat)
    PROVE  Left(s) \in Nat
  <1>1. /\ PartAt(s, 1) \in Nat /\ PartAt(s, 2) \in Nat
        /\ PartAt(s, 3) \in Nat /\ PartAt(s, 4) \in Nat
    BY PartIsNat
  <1>2. QED
    BY <1>1 DEF Left

(* Copying a part takes its size from what is left. *)
LEMMA LeftShrinks ==
    ASSUME NEW s \in Seq(Nat), Len(s) <= 4, s # <<>>
    PROVE  /\ Tail(s) \in Seq(Nat) /\ Len(Tail(s)) <= 4
           /\ Head(s) \in Nat
           /\ Head(s) + Left(Tail(s)) = Left(s)
  <1>1. Len(s) \in Nat /\ Len(s) # 0 /\ Head(s) = s[1]
    BY EmptySeq
  <1>2. /\ Tail(s) \in Seq(Nat) /\ Len(Tail(s)) = Len(s) - 1
        /\ \A k \in 1..(Len(s) - 1) : Tail(s)[k] = s[k + 1]
    BY <1>1
  <1>3. \A k \in Nat \ {0} : PartAt(Tail(s), k) = PartAt(s, k + 1)
    BY <1>1, <1>2 DEF PartAt
  <1>4. /\ PartAt(s, 1) = Head(s) /\ PartAt(s, 5) = 0
    BY <1>1 DEF PartAt
  <1>5. /\ PartAt(Tail(s), 1) = PartAt(s, 2) /\ PartAt(Tail(s), 2) = PartAt(s, 3)
        /\ PartAt(Tail(s), 3) = PartAt(s, 4) /\ PartAt(Tail(s), 4) = PartAt(s, 5)
    BY <1>3
  <1>6. /\ PartAt(s, 1) \in Nat /\ PartAt(s, 2) \in Nat
        /\ PartAt(s, 3) \in Nat /\ PartAt(s, 4) \in Nat
    BY PartIsNat
  <1>7. QED
    BY <1>1, <1>2, <1>4, <1>5, <1>6 DEF Left

(* The kinds of functions, written out. *)
LEMMA CodecKinds ==
    /\ Codec!Builders = {"sms_send_msg", "sms_save_msg", "rsim_access", "burst_dtmf",
                         "rfs_nv_read_item"}
    /\ Codec!Fillers = {"text_with_length", "text", "plmn"}
    /\ Codec!Extractors = {"sms_incoming_msg", "sms_svc_center_addr",
                           "rsim_access_extract", "rfs_nv_write_item", "me_imsi", "me_sn"}
    /\ Null = -1
  BY DEF Codec!Builders, Codec!Fillers, Codec!Extractors, Null, Codec!Null

(* Before the call nothing is allocated, copied or found. *)
LEMMA CodecInit ==
    ASSUME Codec!Init
    PROVE  CodecInv
  <1>1. CASE call \in Codec!Builders \union Codec!Fillers
    BY <1>1, Sizes, CodecKinds
    DEF Codec!Init, CodecInv, BuildInv, FillInv, ExtractInv, ListInv, Null
  <1>2. CASE call \in Codec!Extractors
    BY <1>2, Sizes, CodecKinds
    DEF Codec!Init, CodecInv, BuildInv, FillInv, ExtractInv, ListInv, Null,
        Codec!FoundInside
  <1>3. CASE call = "list_entry"
    BY <1>3, Sizes, CodecKinds, CodecAssumption
    DEF Codec!Init, CodecInv, BuildInv, FillInv, ExtractInv, ListInv, Null,
        Codec!EntryIsThere, Codec!ListsAssumption, Codec!Packed, Codec!Count
  <1>4. QED
    BY <1>1, <1>2, <1>3 DEF Codec!Init

(* Steps of the setup functions. *)
LEMMA BuilderSteps ==
    ASSUME CodecInv, call \in Codec!Builders, Codec!Next
    PROVE  CodecInv'
  <1> USE DEF CodecInv
  <1>1. call' = call /\ (BuildInv' => CodecInv')
    BY CodecKinds DEF BuildInv, FillInv, ExtractInv, ListInv, Codec!Next, Codec!Build,
        Codec!Copy, Codec!Built, Codec!Fill, Codec!Extract, Codec!ListStart,
        Codec!ListStep, Codec!ListEnd, Codec!Done, Codec!vars
  <1>2. CASE Codec!Build
    <2>1. CASE Codec!Parts(call, first, second) = <<>>
      BY <1>1, <1>2, <2>1, CodecKinds DEF Codec!Build, BuildInv
    <2>2. CASE Codec!Parts(call, first, second) # <<>>
      <3>1. /\ Codec!SizeSetup(call, first, second) \in Nat
            /\ Codec!Parts(call, first, second) \in Seq(Nat)
            /\ Len(Codec!Parts(call, first, second)) <= 4
            /\ Left(Codec!Parts(call, first, second))
                  = Total(call, first, Codec!SizeSetup(call, first, second))
        BY <2>2, PartsFit DEF BuildInv
      <3>2. /\ alloc' = Codec!SizeSetup(call, first, second)
            /\ parts' = Codec!Parts(call, first, second)
            /\ pc' = "copy" /\ pc = "call" /\ UNCHANGED <<call, first, second, at, n>>
        BY <1>2, <2>2 DEF Codec!Build
      <3>3. /\ n = 0 /\ at = Null /\ first \in Nat /\ second \in Nat
        BY <3>2 DEF BuildInv
      <3>4. Left(parts') \in Nat
        BY <3>1, <3>2, LeftIsNat
      <3>5. n' + Left(parts') = Total(call', first', alloc')
        BY <3>1, <3>2, <3>3, <3>4
      <3>6. QED
        BY <1>1, <3>1, <3>2, <3>3, <3>5 DEF BuildInv
    <2>3. QED
      BY <2>1, <2>2
  <1>3. CASE Codec!Copy
    <2>1. /\ parts \in Seq(Nat) /\ Len(parts) <= 4 /\ parts # <<>> /\ n \in Nat
          /\ n' = n + Head(parts) /\ parts' = Tail(parts)
          /\ UNCHANGED <<pc, call, first, second, alloc, at>>
          /\ n + Left(parts) = Total(call, first, alloc)
      BY <1>3 DEF Codec!Copy, BuildInv
    <2>2. n' \in Nat /\ n' + Left(parts') = Total(call', first', alloc')
      <3>1. /\ Head(parts) \in Nat /\ Head(parts) + Left(Tail(parts)) = Left(parts)
            /\ Left(Tail(parts)) \in Nat
        BY <2>1, LeftIsNat, LeftShrinks
      <3>2. QED
        BY <2>1, <3>1
    <2>3. QED
      BY <1>1, <1>3, <2>1, <2>2, LeftShrinks DEF Codec!Copy, BuildInv
  <1>4. CASE Codec!Built
    <2>1. Left(<<>>) = 0
      BY DEF Left, PartAt
    <2>2. n = Total(call, first, alloc)
      BY <1>4, <2>1 DEF Codec!Built, BuildInv
    <2>3. QED
      BY <1>1, <1>4, <2>2 DEF Codec!Built, BuildInv, Codec!built
  <1>5. CASE Codec!Done
    BY <1>1, <1>5 DEF Codec!Done, Codec!vars, Codec!built, BuildInv
  <1>6. QED
    BY <1>2, <1>3, <1>4, <1>5, CodecKinds DEF Codec!Next, Codec!Fill, Codec!Extract,
        Codec!ListStart, Codec!ListStep, Codec!ListEnd, BuildInv

(* Steps of the functions that fill a field. *)
LEMMA FillerSteps ==
    ASSUME CodecInv, call \in Codec!Fillers, Codec!Next
    PROVE  CodecInv'
  <1>1. CASE Codec!Fill
    <2>1. /\ first \in Nat /\ pc' = "done" /\ UNCHANGED <<call, first>>
          /\ n' = IF call = "plmn" THEN Field ELSE Codec!FillLength
          /\ length' = IF call = "text_with_length" THEN Codec!FillLength ELSE 0
      BY <1>1 DEF Codec!Fill, CodecInv, FillInv
    <2>2. Codec!FillLength <= Field
      BY <2>1, Sizes DEF Codec!FillLength
    <2>3. call = "text_with_length" => length' = n' /\ n' <= Field
      BY <2>1, <2>2
    <2>4. QED
      BY <2>1, <2>3, CodecKinds DEF CodecInv, BuildInv, FillInv, ExtractInv, ListInv
  <1>2. CASE Codec!Done
    BY <1>2, CodecKinds DEF CodecInv, BuildInv, FillInv, ExtractInv, ListInv,
        Codec!Done, Codec!vars, Codec!built
  <1>3. QED
    BY <1>1, <1>2, CodecKinds DEF Codec!Next, Codec!Build, Codec!Copy, Codec!Built,
        Codec!Extract, Codec!ListStart, Codec!ListStep, Codec!ListEnd, CodecInv, FillInv

(* Steps of the functions that look for one payload. *)
LEMMA ExtractorSteps ==
    ASSUME CodecInv, call \in Codec!Extractors, Codec!Next
    PROVE  CodecInv'
  <1>1. CASE Codec!Extract
    <2>1. /\ size \in Nat /\ size < SizeRange /\ length \in Nat
          /\ n' = Codec!SizeExtract /\ at' = Codec!DataExtract /\ pc' = "done"
          /\ UNCHANGED <<call, size, length>>
      BY <1>1 DEF CodecInv, ExtractInv, Codec!Extract, Codec!built
    <2>2. size >= Header => Codec!Room = size - Header
      BY <2>1, Sizes DEF Codec!Room
    <2>3. Codec!FoundInside'
      <3>1. SUFFICES /\ at' # Null => \/ at' + n' <= size
                                      \/ call = "me_imsi"
                                      \/ call = "me_sn" /\ size < Header + Field
                     /\ at' # Null /\ call \notin {"me_imsi", "me_sn"} => n' > 0
                     /\ at' = Null => n' = 0 \/ (call = "sms_incoming_msg" /\ size < Header)
        BY <2>1 DEF Codec!FoundInside, Null
      <3>2. call \notin {"me_imsi", "me_sn"} =>
               at' = IF size < Header \/ length = 0 \/ length > Codec!Room
                     THEN Null ELSE Header
        BY <2>1, CodecKinds DEF Codec!DataExtract, Null
      <3>3. CASE call = "sms_incoming_msg"
        <4>1. n' = IF length > Codec!Room THEN 0 ELSE length
          BY <2>1, <3>3 DEF Codec!SizeExtract
        <4>2. QED
          BY <2>1, <2>2, <3>1, <3>2, <3>3, <4>1, Sizes, CodecKinds
      <3>4. CASE call \notin {"sms_incoming_msg", "me_imsi", "me_sn"}
        <4>1. n' = IF size < Header \/ length > Codec!Room THEN 0 ELSE length
          BY <2>1, <3>4, CodecKinds DEF Codec!SizeExtract
        <4>2. QED
          BY <2>1, <2>2, <3>1, <3>2, <3>4, <4>1, Sizes, CodecKinds
      <3>5. CASE call = "me_imsi"
        <4>1. /\ n' = IF size < Header THEN 0 ELSE length
              /\ at' = IF size < Header THEN Null ELSE Header
          BY <2>1, <3>5 DEF Codec!SizeExtract, Codec!DataExtract, Null
        <4>2. QED
          BY <3>1, <3>5, <4>1, Sizes, CodecKinds
      <3>6. CASE call = "me_sn"
        <4>1. /\ n' = IF length > Field THEN 0 ELSE length
              /\ at' = IF length > Field THEN Null ELSE Header
          BY <2>1, <3>6 DEF Codec!SizeExtract, Codec!DataExtract, Null
        <4>2. QED
          BY <2>1, <3>1, <3>6, <4>1, Sizes, CodecKinds
      <3>7. QED
        BY <3>3, <3>4, <3>5, <3>6
    <2>4. QED
      BY <2>1, <2>3, CodecKinds DEF CodecInv, BuildInv, FillInv, ExtractInv, ListInv
  <1>2. CASE Codec!Done
    BY <1>2, CodecKinds DEF CodecInv, BuildInv, FillInv, ExtractInv, ListInv,
        Codec!FoundInside, Codec!Done, Codec!vars, Codec!built
  <1>3. QED
    BY <1>1, <1>2, CodecKinds DEF Codec!Next, Codec!Build, Codec!Copy, Codec!Built,
        Codec!Fill, Codec!ListStart, Codec!ListStep, Codec!ListEnd, CodecInv, ExtractInv

(* What the entries of a list look like from one of them. *)
LEMMA ListFacts ==
    ASSUME list \in Lists
    PROVE  /\ Codec!Count \in Nat /\ Codec!Count < ByteRange
           /\ \A k \in 1..(Codec!Count + 1) : list[k] \in Nat
           /\ list[1] = 1
           /\ \A j, k \in 1..(Codec!Count + 1) : j < k => list[j] < list[k]
           /\ \A k \in 1..Codec!Count : list[k + 1] - list[k] - Entry \in Nat
  <1>1. /\ list \in Seq(Nat) /\ Len(list) \in 1..ByteRange /\ list[1] = 1
        /\ \A j, k \in DOMAIN list : j < k => list[j] < list[k]
        /\ \A k \in 1..(Len(list) - 1) : list[k + 1] - list[k] - Entry \in 0..(ByteRange - 1)
    BY CodecAssumption DEF Codec!ListsAssumption
  <1>2. DOMAIN list = 1..(Codec!Count + 1)
    BY <1>1 DEF Codec!Count
  <1>3. Len(list) = Codec!Count + 1 /\ Codec!Count \in Nat /\ Codec!Count < ByteRange
    BY <1>1, Sizes DEF Codec!Count
  <1>4. \A k \in 1..Codec!Count : list[k + 1] - list[k] - Entry \in Nat
    BY <1>1, <1>3, Sizes
  <1>5. \A k \in 1..(Codec!Count + 1) : list[k] \in Nat
    BY <1>1, <1>3, ElementOfSeq
  <1>6. QED
    BY <1>1, <1>2, <1>3, <1>4, <1>5

(* Steps of the walk through a list: call.c's list entry functions. *)
LEMMA ListSteps ==
    ASSUME CodecInv, call = "list_entry", Codec!Next
    PROVE  CodecInv'
  <1>0. /\ list \in Lists /\ size \in Nat /\ index \in Nat
        /\ pc \in {"call", "walk", "done"}
    BY DEF CodecInv, ListInv
  <1>a. Codec!Count \in Nat
    BY <1>0, ListFacts
  <1>1. CASE Codec!ListStart
    <2>1. CASE size < 1 \/ index >= Codec!Count
      <3>1. ~(index < Codec!Count /\ list[index + 2] <= size)
        BY <1>0, <2>1, ListFacts
      <3>2. pc' = "done" /\ at' = Null /\ UNCHANGED <<call, list, size, index>>
        BY <1>1, <2>1, CodecKinds DEF Codec!ListStart, CodecInv, ListInv
      <3>3. Codec!EntryIsThere'
        BY <3>1, <3>2 DEF Codec!EntryIsThere, Codec!Begin, Codec!Count, Null
      <3>4. QED
        BY <1>0, <3>2, <3>3, CodecKinds DEF CodecInv, BuildInv, FillInv, ExtractInv, ListInv
    <2>2. CASE ~(size < 1 \/ index >= Codec!Count)
      <3>1. pc' = "walk" /\ i' = 0 /\ offset' = 1 /\ UNCHANGED <<call, list, size, index>>
        BY <1>1, <2>2 DEF Codec!ListStart
      <3>2. list'[i' + 1] = offset' /\ index' < Codec!Count' /\ i' \in 0..(index' + 1)
        BY <1>0, <1>a, <2>2, <3>1, ListFacts DEF Codec!Count
      <3>3. QED
        BY <1>0, <3>1, <3>2, CodecKinds DEF CodecInv, BuildInv, FillInv, ExtractInv, ListInv,
            Codec!EntryIsThere
    <2>3. QED
      BY <2>1, <2>2
  <1>2. CASE Codec!ListStep
    <2>1. /\ index < Codec!Count /\ i \in 0..index /\ offset \in Nat
          /\ \/ offset = list[i + 1] /\ (i > 0 => entry = list[i])
             \/ offset > size /\ list[i + 1] > size
      BY <1>0, <1>2 DEF Codec!ListStep, CodecInv, ListInv
    <2>2. /\ i' = i + 1 /\ entry' = offset
          /\ pc' = "walk" /\ UNCHANGED <<call, list, size, index>>
      <3>1. Codec!Count \in Nat /\ Codec!Count < ByteRange /\ ByteRange \in Nat
        BY <1>0, ListFacts, Sizes
      <3>2. (i + 1) % ByteRange = i + 1
        BY <1>0, <2>1, <3>1
      <3>3. QED
        BY <1>2, <3>2 DEF Codec!ListStep
    <2>3. PICK text \in Codec!NumberLength : offset' = offset + Entry + text
      BY <1>2 DEF Codec!ListStep
    <2>4. /\ list[i + 1] \in Nat /\ list[i + 2] \in Nat
          /\ list[i + 2] >= list[i + 1] + Entry
      BY <1>0, <2>1, ListFacts, Sizes
    <2>5. CASE offset + Entry <= size
      <3>1. offset = list[i + 1]
        BY <1>0, <2>1, <2>5, Sizes
      <3>2. PICK k \in 1..Codec!Count : list[k] = offset /\ text = list[k + 1] - list[k] - Entry
        BY <2>3, <2>5 DEF Codec!NumberLength, Codec!Begin, Codec!Text
      <3>3. k = i + 1
        BY <1>0, <2>1, <3>1, <3>2, ListFacts
      <3>4. offset' = list[i + 2]
        BY <2>1, <2>3, <2>4, <3>1, <3>2, <3>3, Sizes
      <3>5. /\ offset' = list'[i' + 1] /\ entry' = list'[i'] /\ offset' \in Nat
        BY <2>1, <2>2, <2>4, <3>1, <3>4
      <3>6. QED
        BY <1>0, <2>1, <2>2, <3>5, CodecKinds DEF CodecInv, BuildInv, FillInv, ExtractInv,
            ListInv, Codec!EntryIsThere, Codec!Count
    <2>6. CASE ~(offset + Entry <= size)
      <3>1. text \in Nat
        BY <2>3, <2>6, Sizes DEF Codec!NumberLength
      <3>2. offset' \in Nat /\ offset' > size /\ list[i + 2] > size
        BY <1>0, <2>1, <2>3, <2>4, <2>6, <3>1, Sizes
      <3>3. list'[i' + 1] > size' /\ offset' > size'
        BY <2>1, <2>2, <3>2
      <3>4. QED
        BY <1>0, <2>1, <2>2, <3>2, <3>3, CodecKinds DEF CodecInv, BuildInv, FillInv,
            ExtractInv, ListInv, Codec!EntryIsThere, Codec!Count
    <2>7. QED
      BY <2>5, <2>6
  <1>3. CASE Codec!ListEnd
    <2>1. /\ index < Codec!Count /\ i = index + 1 /\ offset \in Nat
          /\ \/ offset = list[i + 1] /\ entry = list[i]
             \/ offset > size /\ list[i + 1] > size
      BY <1>0, <1>3 DEF Codec!ListEnd, CodecInv, ListInv
    <2>2. list[index + 2] \in Nat
      BY <1>0, <2>1, ListFacts
    <2>3. /\ pc' = "done" /\ UNCHANGED <<call, list, size, index>>
          /\ at' = IF offset > size THEN Null ELSE entry
      BY <1>3 DEF Codec!ListEnd, Codec!walk, Null
    <2>4. at' = IF list[index + 2] <= size THEN list[index + 1] ELSE Null
      BY <1>0, <2>1, <2>2, <2>3
    <2>5. Codec!EntryIsThere'
      BY <2>1, <2>3, <2>4 DEF Codec!EntryIsThere, Codec!Begin, Codec!Count, Null
    <2>6. QED
      BY <1>0, <2>3, <2>5, CodecKinds DEF CodecInv, BuildInv, FillInv, ExtractInv, ListInv
  <1>4. CASE Codec!Done
    BY <1>4, CodecKinds DEF CodecInv, BuildInv, FillInv, ExtractInv, ListInv,
        Codec!EntryIsThere, Codec!Begin, Codec!Count, Codec!Done, Codec!vars, Codec!walk
  <1>5. QED
    BY <1>0, <1>1, <1>2, <1>3, <1>4, CodecKinds DEF Codec!Next, Codec!Build, Codec!Copy,
        Codec!Built, Codec!Fill, Codec!Extract

(* The invariant of the composed specification. *)
CodecIInv == OnCodec => CodecInv

(* Init establishes the invariant. *)
LEMMA CodecInitially == Init => CodecIInv
  BY CodecInit DEF Init, OnImei, OnCodec, CodecIInv

(* Every step keeps the invariant. *)
LEMMA CodecInductive == CodecIInv /\ [Next]_vars => CodecIInv'
  <1>1. CASE OnCodec /\ CodecInv /\ Codec!Next /\ UNCHANGED <<subject, tool>>
    <2>1. CodecInv'
      BY <1>1, BuilderSteps, FillerSteps, ExtractorSteps, ListSteps DEF CodecInv
    <2>2. QED
      BY <2>1 DEF CodecIInv
  <1>2. CASE ~OnCodec /\ UNCHANGED subject
    BY <1>2 DEF CodecIInv, OnCodec
  <1>3. CASE CodecIInv /\ UNCHANGED vars
    BY <1>3 DEF CodecIInv, CodecInv, OnCodec, vars, codec, BuildInv, FillInv, ExtractInv,
        ListInv, Codec!FoundInside, Codec!EntryIsThere, Codec!Begin, Codec!Count
  <1>4. QED
    BY <1>1, <1>2, <1>3 DEF Next, CodecIInv, OnImei, OnCodec

(* The invariant holds. *)
LEMMA CodecHolds == Spec => []CodecIInv
  BY CodecInitially, CodecInductive, PTL DEF Spec

(* sms.c, sec.c, call.c, rfs.c, the setup functions: for all lengths, no   *)
(* builder but that of the RFS item copies beyond the room its size        *)
(* function made, a finished message is full, and the RFS item overruns    *)
(* its room by exactly the item.                                           *)
THEOREM MessagesFit == Spec => []BuiltWithinRoom
  <1>1. CodecIInv => BuiltWithinRoom
    <2>1. SUFFICES ASSUME OnCodec, CodecInv PROVE Codec!BuiltWithinRoom
      BY DEF CodecIInv, BuiltWithinRoom
    <2>2. CASE call \in Codec!Builders
      <3>1. /\ first \in Nat /\ alloc \in Nat /\ n \in Nat
            /\ Total(call, first, alloc)
                  = IF call = "rfs_nv_read_item" THEN alloc + first ELSE alloc
        BY <2>1, <2>2 DEF CodecInv, BuildInv, Total
      <3>2. CASE pc = "copy"
        <4>1. Left(parts) \in Nat /\ n + Left(parts) = Total(call, first, alloc) /\ at = Null
          BY <2>1, <2>2, <3>2, LeftIsNat DEF CodecInv, BuildInv
        <4>2. QED
          BY <2>2, <3>1, <3>2, <4>1, CodecKinds DEF Codec!BuiltWithinRoom, Null
      <3>3. CASE pc # "copy"
        BY <2>1, <2>2, <3>1, <3>3, CodecKinds
        DEF CodecInv, BuildInv, Codec!BuiltWithinRoom, Null
      <3>4. QED
        BY <3>2, <3>3
    <2>3. CASE call \notin Codec!Builders
      BY <2>1, <2>3, CodecKinds DEF CodecInv, FillInv, Codec!BuiltWithinRoom
    <2>4. QED
      BY <2>2, <2>3
  <1>2. QED
    BY <1>1, CodecHolds, PTL

(* sms.c, sec.c, rfs.c, misc.c, the extract functions: whatever lengths a  *)
(* message claims, a payload that is found lies inside it, the serial      *)
(* number only when the response is whole, since its parser gets no size.  *)
(* Of the IMSI, whose parser trusts the length, nothing of the kind holds. *)
THEOREM PayloadsLieInside == Spec => []FoundInside
  <1>1. CodecIInv => FoundInside
    BY DEF CodecIInv, CodecInv, ExtractInv, FoundInside, Codec!FoundInside
  <1>2. QED
    BY <1>1, CodecHolds, PTL

(* call.c, net.c, svc.c, the list functions: in a list of any length, the  *)
(* entry asked for is found where the modem put it when it is all there,   *)
(* and only then.                                                          *)
THEOREM EntriesAreFound == Spec => []EntryIsThere
  <1>1. CodecIInv => EntryIsThere
    BY DEF CodecIInv, CodecInv, ListInv, EntryIsThere, Codec!EntryIsThere
  <1>2. QED
    BY <1>1, CodecHolds, PTL

-----------------------------------------------------------------------------
(***************************************************************************)
(* nv_data-imei.  Cardinalities first: argc counts the elements of argv.   *)
(***************************************************************************)
LEMMA SameCardinality == \A S : Imei!Cardinality(S) = Cardinality(S)
  BY DEF Imei!Cardinality, Cardinality

(* Choosing the least of some numbers, as the search for the first place   *)
(* does.                                                                   *)
LEMMA LeastNat ==
    ASSUME NEW S \in SUBSET Nat, S # {}
    PROVE  Imei!Min(S) \in S /\ \A y \in S : Imei!Min(S) <= y
  <1> DEFINE R == {e \in Nat \X Nat : e[1] < e[2]}
  <1>1. IsWellFoundedOn(R, Nat)
    BY NatLessThanWellFounded DEF OpToRel
  <1>2. PICK x \in S : \A y \in S : <<y, x>> \notin R
    <2> HIDE DEF R
    <2>1. QED
      BY <1>1, WFMin
  <1>3. \A y \in S : <<y, x>> \in Nat \X Nat /\ <<y, x>>[1] = y /\ <<y, x>>[2] = x
    OBVIOUS
  <1>4. \A y \in S : ~(y < x)
    BY <1>2, <1>3
  <1>5. \A y \in S : x <= y
    BY <1>4
  <1>6. QED
    BY <1>5, Zenon DEF Imei!Min

(* The command line: tokens, as getopt_long returns them. *)
LineInv ==
    /\ Len(line) \in Nat /\ DOMAIN line = 1..Len(line)
    /\ \A k \in 1..Len(line) : Imei!IsToken(line[k])

(* The elements of argv that belong to the first k tokens. *)
Taken(k) == Cardinality(Imei!Elements(k))

(* There are finitely many elements, so they can be counted. *)
LEMMA TakenIsNat ==
    ASSUME NEW k \in Nat
    PROVE  IsFiniteSet(Imei!Elements(k)) /\ Taken(k) \in Nat
  <1>1. IsFiniteSet(1..k)
    BY FS_Interval
  <1>2. IsFiniteSet({1, 2})
    <2>1. IsFiniteSet({1}) /\ {1, 2} = {1} \union {2}
      BY FS_Singleton
    <2>2. QED
      BY <2>1, FS_AddElement
  <1>3. IsFiniteSet((1..k) \X {1, 2})
    BY <1>1, <1>2, FS_Product
  <1>4. IsFiniteSet(Imei!Elements(k))
    BY <1>3, FS_Subset DEF Imei!Elements
  <1>5. QED
    BY <1>4, FS_CardinalityType DEF Taken

(* More tokens, no fewer elements. *)
LEMMA TakenGrows ==
    ASSUME NEW j \in Nat, NEW k \in Nat, j <= k
    PROVE  Taken(j) <= Taken(k)
  <1>1. Imei!Elements(j) \subseteq Imei!Elements(k)
    BY DEF Imei!Elements
  <1>2. QED
    BY <1>1, TakenIsNat, FS_Subset DEF Taken

(* Each token takes its one or two elements of argv. *)
LEMMA TakenStep ==
    ASSUME LineInv, NEW k \in Nat, k < Len(line)
    PROVE  Taken(k + 1) = Taken(k) + line[k + 1].n /\ line[k + 1].n \in {1, 2}
  <1> DEFINE E == Imei!Elements(k)
  <1>1. line[k + 1].n \in {1, 2}
    BY DEF LineInv, Imei!IsToken
  <1>a. IsFiniteSet(E) /\ Cardinality(E) \in Nat /\ Taken(k) = Cardinality(E)
    BY TakenIsNat DEF Taken
  <1>b. <<k + 1, 1>> \notin E /\ <<k + 1, 2>> \notin E
    BY DEF Imei!Elements
  <1>2. /\ IsFiniteSet(E) /\ Cardinality(E) \in Nat
        /\ <<k + 1, 1>> \notin E /\ <<k + 1, 2>> \notin E
    BY <1>a, <1>b
  <1>3. CASE line[k + 1].n = 1
    <2>1. Imei!Elements(k + 1) = E \union {<<k + 1, 1>>}
      BY <1>3 DEF Imei!Elements
    <2> HIDE DEF E
    <2>2. Cardinality(E \union {<<k + 1, 1>>}) = Cardinality(E) + 1
      BY <1>2, FS_AddElement
    <2>3. QED
      BY <1>3, <2>1, <2>2 DEF Taken, E
  <1>4. CASE line[k + 1].n = 2
    <2>1. Imei!Elements(k + 1) = (E \union {<<k + 1, 1>>}) \union {<<k + 1, 2>>}
      BY <1>4 DEF Imei!Elements
    <2> HIDE DEF E
    <2>2. /\ IsFiniteSet(E \union {<<k + 1, 1>>})
          /\ Cardinality(E \union {<<k + 1, 1>>}) = Cardinality(E) + 1
      BY <1>2, FS_AddElement
    <2>3. <<k + 1, 2>> \notin E \union {<<k + 1, 1>>}
      BY <1>2
    <2>4. Cardinality((E \union {<<k + 1, 1>>}) \union {<<k + 1, 2>>}) = Cardinality(E) + 1 + 1
      BY <2>2, <2>3, FS_AddElement
    <2>5. Taken(k + 1) = Cardinality(E) + 1 + 1
      BY <2>1, <2>4 DEF Taken
    <2>6. QED
      BY <1>a, <1>4, <2>5
  <1>5. QED
    BY <1>1, <1>3, <1>4

(* The counts that main compares argc with. *)
LEMMA TakenFirst ==
    ASSUME LineInv
    PROVE  /\ Taken(0) = 0 /\ Imei!argc = 1 + Taken(Len(line))
           /\ Len(line) >= 1 => Taken(1) = line[1].n
           /\ Len(line) >= 2 => Taken(2) = line[1].n + line[2].n
           /\ Len(line) >= 3 => Taken(3) >= 3
  <1>1. Taken(0) = 0
    <2>1. Imei!Elements(0) = {}
      BY DEF Imei!Elements
    <2>2. QED
      BY <2>1, FS_EmptySet DEF Taken
  <1>2. Imei!argc = 1 + Taken(Len(line))
    BY SameCardinality DEF Imei!argc, Taken
  <1>3. Len(line) \in Nat
    BY DEF LineInv
  <1>4. Len(line) >= 1 => Taken(1) = line[1].n /\ line[1].n \in {1, 2}
    <2>1. Len(line) >= 1 => Taken(0 + 1) = Taken(0) + line[0 + 1].n /\ line[0 + 1].n \in {1, 2}
      BY <1>3, TakenStep
    <2>2. QED
      BY <1>1, <2>1
  <1>5. Len(line) >= 2 => Taken(2) = line[1].n + line[2].n /\ line[2].n \in {1, 2}
    <2>1. Len(line) >= 2 => Taken(1 + 1) = Taken(1) + line[1 + 1].n /\ line[1 + 1].n \in {1, 2}
      BY <1>3, TakenStep
    <2>2. QED
      BY <1>3, <1>4, <2>1
  <1>6. Len(line) >= 3 => Taken(3) >= 3
    <2>1. Len(line) >= 3 => Taken(2 + 1) = Taken(2) + line[2 + 1].n /\ line[2 + 1].n \in {1, 2}
      BY <1>3, TakenStep
    <2>2. QED
      BY <1>3, <1>4, <1>5, <2>1
  <1>7. QED
    BY <1>1, <1>2, <1>4, <1>5, <1>6

(***************************************************************************)
(* What main knows after the tokens it has parsed.                         *)
(***************************************************************************)
ImeiSeen ==
    \/ imei = <<>> /\ \A j \in 1..next : line[j].kind # "i"
    \/ \E j \in 1..next : /\ line[j].kind = "i" /\ imei = <<line[j].imei>>
                          /\ \A k \in 1..next : line[k].kind = "i" => k = j
(* The same of -o. *)
OffsetSeen ==
    \/ offset = <<>> /\ \A j \in 1..next : line[j].kind # "o"
    \/ \E j \in 1..next : /\ line[j].kind = "o" /\ offset = <<line[j].offset>>
                          /\ \A k \in 1..next : line[k].kind = "o" => k = j

(* The second token is the command, when the first is of one element. *)
Named == next >= 2 /\ line[1].n = 1 /\ line[2].kind = "arg"
(* The command found so far. *)
CommandSeen ==
    \/ command = "none" /\ ~Named
    \/ command \in Imei!NeedsFile /\ Named /\ line[2].name = command

(* What the tokens read so far have set. *)
SeenInv ==
    /\ \A j \in 1..next : line[j].kind \notin {"h", "?"}
    /\ ImeiSeen /\ OffsetSeen /\ CommandSeen

(* The commands, by the places where they run. *)
Running(cmd) ==
    CASE cmd = "read-imei" -> {"read-imei"}
      [] cmd = "write-imei" -> {"write-imei", "md5"}
      [] OTHER -> {"bruteforce-imei", "search"}

(* The parser and the line. *)
ParseInv ==
    /\ LineInv
    /\ next \in 0..Len(line) /\ optind = 1 + Taken(next)
    /\ command \in {"none"} \union Imei!NeedsFile
    /\ pc \in {"parse", "exit"} \/ (command # "none" /\ pc \in Running(command))
    /\ pc # "exit" => exit = "none" /\ SeenInv
    /\ pc \notin {"parse", "exit"} =>
          /\ next = Len(line) /\ ~Imei!ImeiRefused /\ ~Imei!OffsetRefused
          /\ Imei!Shaped(command)
    /\ exit = "OK" /\ command \in Imei!HasImei =>
          ~Imei!ImeiRefused /\ ~Imei!OffsetRefused /\ ImeiSeen /\ OffsetSeen
    /\ exit = "USAGE" => \A cmd \in Imei!NeedsFile : ~Imei!Shaped(cmd)
    /\ disk # before => Imei!Shaped("write-imei")

(* An option is given finitely often. *)
LEMMA GivenFinite ==
    ASSUME LineInv, NEW kind
    PROVE  IsFiniteSet(Imei!Given(kind))
  <1>1. Imei!Given(kind) \in SUBSET (1..Len(line)) /\ IsFiniteSet(1..Len(line))
    BY FS_Interval DEF LineInv, Imei!Given
  <1>2. QED
    BY <1>1, FS_Subset

(* Cardinalities of what was given, in terms of its elements. *)
LEMMA GivenCount ==
    ASSUME LineInv, NEW kind
    PROVE  /\ Imei!Cardinality(Imei!Given(kind)) = 0 <=> Imei!Given(kind) = {}
           /\ Imei!Cardinality(Imei!Given(kind)) = 1 <=> \E j : Imei!Given(kind) = {j}
  BY GivenFinite, SameCardinality, FS_EmptySet, FS_Singleton

(* A token given twice is refused, whatever the command. *)
LEMMA TwiceRefused ==
    ASSUME LineInv, NEW kind \in {"i", "o"}, NEW j \in 1..Len(line), NEW k \in 1..Len(line),
           j # k, line[j].kind = kind, line[k].kind = kind, NEW cmd
    PROVE  ~Imei!Shaped(cmd)
  <1>1. j \in Imei!Given(kind) /\ k \in Imei!Given(kind)
    BY DEF Imei!Given, LineInv
  <1>2. Imei!Cardinality(Imei!Given(kind)) \notin {0, 1}
    BY <1>1, GivenCount
  <1>3. CASE kind = "i"
    BY <1>2, <1>3 DEF Imei!Shaped
  <1>4. CASE kind = "o"
    BY <1>2, <1>4 DEF Imei!Shaped
  <1>5. QED
    BY <1>3, <1>4

(* At the end of the line, what was seen decides. *)
LEMMA SeenAll ==
    ASSUME LineInv, SeenInv, next = Len(line)
    PROVE  /\ Imei!Given("h") = {} /\ Imei!Given("?") = {}
           /\ \/ imei = <<>> /\ Imei!Given("i") = {}
              \/ \E j \in 1..Len(line) : imei = <<line[j].imei>> /\ Imei!Given("i") = {j}
           /\ \/ offset = <<>> /\ Imei!Given("o") = {}
              \/ \E j \in 1..Len(line) : offset = <<line[j].offset>> /\ Imei!Given("o") = {j}
  <1>1. Imei!Given("h") = {} /\ Imei!Given("?") = {}
    BY DEF LineInv, SeenInv, Imei!Given
  <1>2. \/ imei = <<>> /\ Imei!Given("i") = {}
        \/ \E j \in 1..Len(line) : imei = <<line[j].imei>> /\ Imei!Given("i") = {j}
    BY DEF LineInv, SeenInv, ImeiSeen, Imei!Given
  <1>3. \/ offset = <<>> /\ Imei!Given("o") = {}
        \/ \E j \in 1..Len(line) : offset = <<line[j].offset>> /\ Imei!Given("o") = {j}
    BY DEF LineInv, SeenInv, OffsetSeen, Imei!Given
  <1>4. QED
    BY <1>1, <1>2, <1>3

(* What each command needs and allows, from the table of commands. *)
LEMMA CommandTable ==
    /\ Imei!NeedsFile = {"read-imei", "write-imei", "bruteforce-imei"}
    /\ Imei!HasImei = {"write-imei", "bruteforce-imei"}
    /\ Imei!NeedsImei = {"write-imei", "bruteforce-imei"}
    /\ Imei!HasOffset = {"read-imei", "write-imei"}
    /\ Imei!NeedsOffset = {"write-imei"}
  BY DEF Imei!NeedsFile, Imei!HasImei, Imei!NeedsImei, Imei!HasOffset, Imei!NeedsOffset

(* A sequence of one. *)
LEMMA OneElement ==
    ASSUME NEW x
    PROVE  <<x>> # <<>> /\ <<x>>[1] = x
  OBVIOUS

(* The tokens that the first tests of main look at. *)
LEMMA SecondToken ==
    ASSUME LineInv, Len(line) >= 2
    PROVE  Imei!IsToken(line[1]) /\ Imei!IsToken(line[2])
  <1>1. 1 \in 1..Len(line) /\ 2 \in 1..Len(line)
    BY DEF LineInv
  <1>2. QED
    BY <1>1, Zenon DEF LineInv

(* A line of the right shape gives only the options its command has. *)
LEMMA ShapedCounts ==
    ASSUME NEW cmd, Imei!Shaped(cmd)
    PROVE  /\ Imei!Cardinality(Imei!Given("i")) = 1 => cmd \in Imei!HasImei
           /\ Imei!Cardinality(Imei!Given("o")) = 1 => cmd \in Imei!HasOffset
  <1>1. Imei!Cardinality(Imei!Given("i")) = IF cmd \in Imei!HasImei THEN 1 ELSE 0
    BY Zenon DEF Imei!Shaped
  <1>2. Imei!Cardinality(Imei!Given("o"))
          \in IF cmd \in Imei!NeedsOffset THEN {1}
              ELSE IF cmd \in Imei!HasOffset THEN {0, 1} ELSE {0}
    BY Zenon DEF Imei!Shaped
  <1>3. QED
    BY <1>1, <1>2, CommandTable

(* Lines that reach the command have the shape that main looks for. *)
LEMMA EndRuns ==
    ASSUME LineInv, SeenInv, next = Len(line), command # "none",
           ~Imei!ImeiRefused, ~Imei!OffsetRefused
    PROVE  Imei!Shaped(command)
  <1>1. /\ command \in Imei!NeedsFile /\ Len(line) >= 2 /\ line[1].n = 1
        /\ line[2].kind = "arg" /\ line[2].name = command
    BY DEF SeenInv, CommandSeen, Named
  <1>2. line[2] = Imei!Arg(command)
    <2>1. Imei!IsToken(line[2])
      BY <1>1, SecondToken
    <2>2. QED
      BY <1>1, <2>1 DEF Imei!IsToken
  <1>3. /\ Imei!Cardinality(Imei!Given("i")) = IF command \in Imei!HasImei THEN 1 ELSE 0
        /\ \A j \in Imei!Given("i") : Imei!ImeiValid(line[j].imei)
    <2>1. CASE imei = <<>> /\ Imei!Given("i") = {}
      BY <2>1, <1>1, CommandTable, GivenCount DEF Imei!ImeiRefused
    <2>2. ASSUME NEW j \in 1..Len(line), imei = <<line[j].imei>>, Imei!Given("i") = {j}
          PROVE  <1>3!1 /\ <1>3!2
      <3>1. imei # <<>> /\ imei[1] = line[j].imei
        BY <2>2, OneElement
      <3>2. command \in Imei!HasImei /\ Imei!ImeiValid(line[j].imei)
        BY <3>1 DEF Imei!ImeiRefused
      <3>3. Imei!Cardinality(Imei!Given("i")) = 1
        BY <2>2, GivenCount
      <3>4. QED
        BY <2>2, <3>2, <3>3
    <2>3. QED
      BY <2>1, <2>2, SeenAll
  <1>4. /\ Imei!Cardinality(Imei!Given("o"))
             \in IF command \in Imei!NeedsOffset THEN {1}
                 ELSE IF command \in Imei!HasOffset THEN {0, 1} ELSE {0}
        /\ \A j \in Imei!Given("o") : line[j].offset \notin {Imei!Negative, Imei!TooBig}
    <2>1. CASE offset = <<>> /\ Imei!Given("o") = {}
      BY <2>1, <1>1, CommandTable, GivenCount DEF Imei!OffsetRefused
    <2>2. ASSUME NEW j \in 1..Len(line), offset = <<line[j].offset>>, Imei!Given("o") = {j}
          PROVE  <1>4!1 /\ <1>4!2
      <3>1. offset # <<>> /\ offset[1] = line[j].offset
        BY <2>2, OneElement
      <3>2. command \in Imei!HasOffset /\ line[j].offset \notin {Imei!Negative, Imei!TooBig}
        BY <3>1 DEF Imei!OffsetRefused
      <3>3. Imei!Cardinality(Imei!Given("o")) = 1
        BY <2>2, GivenCount
      <3>4. QED
        BY <2>2, <3>2, <3>3
    <2>3. QED
      BY <2>1, <2>2, SeenAll
  <1>5. Imei!Given("h") = {} /\ Imei!Given("?") = {}
    BY SeenAll
  <1>6. QED
    BY <1>1, <1>2, <1>3, <1>4, <1>5 DEF Imei!Shaped

(* Lines that are refused at the end have the shape of no command. *)
LEMMA EndRefuses ==
    ASSUME LineInv, SeenInv, next = Len(line),
           command = "none" \/ Imei!ImeiRefused \/ Imei!OffsetRefused,
           NEW cmd \in Imei!NeedsFile
    PROVE  ~Imei!Shaped(cmd)
  <1>1. SUFFICES ASSUME Imei!Shaped(cmd) PROVE FALSE
    OBVIOUS
  <1>2. line[2].kind = "arg" /\ line[2].name = cmd /\ Len(line) >= 2 /\ line[1].n = 1
    <2>1. line[2] = Imei!Arg(cmd) /\ Len(line) >= 2 /\ line[1].n = 1
      BY <1>1 DEF Imei!Shaped
    <2>2. Imei!Arg(cmd).kind = "arg" /\ Imei!Arg(cmd).name = cmd
      BY DEF Imei!Arg, Imei!Token
    <2>3. QED
      BY <2>1, <2>2
  <1>a. /\ Imei!Cardinality(Imei!Given("i")) = IF cmd \in Imei!HasImei THEN 1 ELSE 0
        /\ \A j \in Imei!Given("i") : Imei!ImeiValid(line[j].imei)
    BY <1>1, Zenon DEF Imei!Shaped
  <1>b. /\ Imei!Cardinality(Imei!Given("o"))
             \in IF cmd \in Imei!NeedsOffset THEN {1}
                 ELSE IF cmd \in Imei!HasOffset THEN {0, 1} ELSE {0}
        /\ \A j \in Imei!Given("o") : line[j].offset \notin {Imei!Negative, Imei!TooBig}
    BY <1>1, Zenon DEF Imei!Shaped
  <1>3. command = cmd /\ command # "none"
    BY <1>2, CommandTable DEF SeenInv, CommandSeen, Named
  <1>4. ~Imei!ImeiRefused
    <2>1. CASE imei = <<>> /\ Imei!Given("i") = {}
      BY <1>1, <1>3, <2>1, CommandTable, GivenCount DEF Imei!ImeiRefused, Imei!Shaped
    <2>2. ASSUME NEW j \in 1..Len(line), imei = <<line[j].imei>>, Imei!Given("i") = {j}
          PROVE  ~Imei!ImeiRefused
      <3>1. imei # <<>> /\ imei[1] = line[j].imei
        BY <2>2, OneElement
      <3>2. Imei!Cardinality(Imei!Given("i")) = 1
        BY <2>2, GivenCount
      <3>3. command \in Imei!HasImei /\ Imei!ImeiValid(imei[1])
        <4>1. Imei!ImeiValid(line[j].imei)
          BY <1>a, <2>2, Zenon
        <4>2. cmd \in Imei!HasImei
          BY <1>1, <3>2, ShapedCounts
        <4>3. QED
          BY <1>3, <3>1, <4>1, <4>2
      <3>4. QED
        BY <3>1, <3>3 DEF Imei!ImeiRefused
    <2>3. QED
      BY <2>1, <2>2, SeenAll
  <1>5. ~Imei!OffsetRefused
    <2>1. CASE offset = <<>> /\ Imei!Given("o") = {}
      BY <1>1, <1>3, <2>1, CommandTable, GivenCount DEF Imei!OffsetRefused, Imei!Shaped
    <2>2. ASSUME NEW j \in 1..Len(line), offset = <<line[j].offset>>, Imei!Given("o") = {j}
          PROVE  ~Imei!OffsetRefused
      <3>1. offset # <<>> /\ offset[1] = line[j].offset
        BY <2>2, OneElement
      <3>2. Imei!Cardinality(Imei!Given("o")) = 1
        BY <2>2, GivenCount
      <3>3. command \in Imei!HasOffset /\ offset[1] \notin {Imei!Negative, Imei!TooBig}
        <4>1. line[j].offset \notin {Imei!Negative, Imei!TooBig}
          BY <1>b, <2>2, Zenon
        <4>2. cmd \in Imei!HasOffset
          BY <1>1, <3>2, ShapedCounts
        <4>3. QED
          BY <1>3, <3>1, <4>1, <4>2
      <3>4. QED
        BY <3>1, <3>3 DEF Imei!OffsetRefused
    <2>3. QED
      BY <2>1, <2>2, SeenAll
  <1>6. QED
    BY <1>3, <1>4, <1>5

(* The shape of a line depends on the line alone. *)
LEMMA ShapedStable ==
    ASSUME UNCHANGED line, NEW cmd
    PROVE  Imei!Shaped(cmd)' <=> Imei!Shaped(cmd)
  BY DEF Imei!Shaped, Imei!Given

(* The last tests look at the command and its options only. *)
LEMMA RefusedStable ==
    ASSUME UNCHANGED <<command, imei, offset>>
    PROVE  /\ Imei!ImeiRefused' <=> Imei!ImeiRefused
           /\ Imei!OffsetRefused' <=> Imei!OffsetRefused
  BY DEF Imei!ImeiRefused, Imei!OffsetRefused

(* What was seen depends on the line and the options parsed. *)
LEMMA SeenStable ==
    ASSUME UNCHANGED <<line, next, command, imei, offset>>
    PROVE  /\ LineInv' = LineInv
           /\ Taken(next)' = Taken(next)
           /\ ImeiSeen' = ImeiSeen /\ OffsetSeen' = OffsetSeen
           /\ SeenInv' = SeenInv
  <1>1. LineInv' = LineInv /\ Taken(next)' = Taken(next)
    BY DEF LineInv, Taken, Imei!Elements
  <1>2. ImeiSeen' = ImeiSeen /\ OffsetSeen' = OffsetSeen
    BY DEF ImeiSeen, OffsetSeen
  <1>3. CommandSeen' = CommandSeen
    BY DEF CommandSeen, Named, Imei!NeedsFile
  <1>4. QED
    BY <1>1, <1>2, <1>3 DEF SeenInv

(* What one turn of the loop around getopt_long reads. *)
LEMMA ParsingFacts ==
    ASSUME ParseInv, NEW kind, Imei!Parsing(kind)
    PROVE  /\ pc = "parse" /\ exit = "none" /\ SeenInv
           /\ next \in Nat /\ next + 1 \in 1..Len(line) /\ next < Len(line)
           /\ line[next + 1].kind = kind /\ Imei!IsToken(line[next + 1])
           /\ next' = next + 1 /\ optind' = 1 + Taken(next + 1)
           /\ Taken(next)' = Taken(next + 1)
           /\ line[next + 1].n \in {1, 2} /\ Taken(next + 1) = Taken(next) + line[next + 1].n
           /\ LineInv /\ LineInv' /\ UNCHANGED <<line, disk, before>>
  <1>1. /\ pc = "parse" /\ next < Len(line) /\ line[next + 1].kind = kind
        /\ next' = next + 1 /\ optind' = optind + line[next + 1].n
        /\ UNCHANGED <<line, disk, before>>
    BY DEF Imei!Parsing, Imei!Current
  <1>2. /\ LineInv /\ next \in Nat /\ Len(line) \in Nat /\ optind = 1 + Taken(next)
        /\ exit = "none" /\ SeenInv
    <2>1. LineInv /\ next \in 0..Len(line) /\ optind = 1 + Taken(next)
      BY DEF ParseInv
    <2>2. exit = "none" /\ SeenInv
      BY <1>1 DEF ParseInv
    <2>3. QED
      BY <2>1, <2>2 DEF LineInv
  <1>3. next + 1 \in 1..Len(line)
    BY <1>1, <1>2
  <1>4. Imei!IsToken(line[next + 1])
    BY <1>2, <1>3 DEF LineInv
  <1>5. Taken(next + 1) = Taken(next) + line[next + 1].n /\ line[next + 1].n \in {1, 2}
    BY <1>1, <1>2, TakenStep
  <1>6. Taken(next) \in Nat
    BY <1>2, TakenIsNat
  <1>7. optind' = 1 + Taken(next + 1)
    BY <1>1, <1>2, <1>5, <1>6
  <1>8. Taken(next)' = Taken(next + 1)
    BY <1>1 DEF Taken, Imei!Elements
  <1>9. LineInv'
    BY <1>1, <1>2 DEF LineInv
  <1>10. QED
    BY <1>1, <1>2, <1>3, <1>4, <1>5, <1>7, <1>8, <1>9

(* A turn that exits. *)
LEMMA ParsingExits ==
    ASSUME ParseInv, NEW kind, Imei!Parsing(kind), pc' = "exit",
           command' \in {"none"} \union Imei!NeedsFile, exit' = "OK" => command' = "none",
           exit' = "USAGE" => \A cmd \in Imei!NeedsFile : ~Imei!Shaped(cmd)
    PROVE  ParseInv'
  <1>1. /\ next' \in 0..Len(line') /\ optind' = 1 + Taken(next)' /\ LineInv'
        /\ UNCHANGED <<line, disk, before>>
    <2>1. /\ next \in Nat /\ next + 1 \in 1..Len(line) /\ next' = next + 1
          /\ optind' = 1 + Taken(next + 1) /\ Taken(next)' = Taken(next + 1)
          /\ LineInv /\ LineInv' /\ UNCHANGED <<line, disk, before>>
      BY ParsingFacts
    <2>2. next' \in 0..Len(line')
      BY <2>1 DEF LineInv
    <2>3. QED
      BY <2>1, <2>2
  <1>2. exit' = "USAGE" => \A cmd \in Imei!NeedsFile : ~Imei!Shaped(cmd)'
    BY <1>1, ShapedStable
  <1>3. disk' # before' => Imei!Shaped("write-imei")'
    BY <1>1, ShapedStable DEF ParseInv
  <1>4. ~(exit' = "OK" /\ command' \in Imei!HasImei)
    BY CommandTable
  <1>5. QED
    BY <1>1, <1>2, <1>3, <1>4 DEF ParseInv, Imei!NeedsFile, Imei!HasImei

(* A turn that goes on with the next token. *)
LEMMA ParsingContinues ==
    ASSUME ParseInv, NEW kind, Imei!Parsing(kind), Imei!Continue, SeenInv'
    PROVE  ParseInv'
  <1>1. /\ next' \in 0..Len(line') /\ optind' = 1 + Taken(next)' /\ LineInv'
        /\ UNCHANGED <<line, disk, before, pc, exit>> /\ pc = "parse" /\ exit = "none"
    BY ParsingFacts DEF Imei!Continue
  <1>2. disk' # before' => Imei!Shaped("write-imei")'
    BY <1>1, ShapedStable DEF ParseInv
  <1>3. command' \in {"none"} \union Imei!NeedsFile
    BY DEF SeenInv, CommandSeen, Imei!NeedsFile
  <1>4. QED
    BY <1>1, <1>2, <1>3 DEF ParseInv, Imei!NeedsFile, Imei!HasImei

(* A step of a running command. *)
LEMMA CommandRuns ==
    ASSUME ParseInv, pc \notin {"parse", "exit"},
           UNCHANGED <<line, before, next, optind, command, imei, offset>>,
           disk' = disk \/ command = "write-imei",
           \/ pc' \in Running(command) /\ exit' = exit
           \/ pc' = "exit" /\ exit' # "USAGE"
    PROVE  ParseInv'
  <1>1. /\ command # "none" /\ command \in Imei!NeedsFile /\ exit = "none" /\ SeenInv /\ LineInv
        /\ next = Len(line) /\ ~Imei!ImeiRefused /\ ~Imei!OffsetRefused
        /\ Imei!Shaped(command) /\ next \in 0..Len(line) /\ optind = 1 + Taken(next)
    BY CommandTable DEF ParseInv
  <1>2. /\ Imei!Shaped(command)' /\ ~Imei!ImeiRefused' /\ ~Imei!OffsetRefused'
        /\ SeenInv' /\ ImeiSeen' /\ OffsetSeen'
        /\ LineInv' /\ Taken(next)' = Taken(next)
    <2>1. Imei!Shaped(command)'
      BY <1>1 DEF Imei!Shaped, Imei!Given
    <2>2. QED
      BY <1>1, <2>1, RefusedStable, SeenStable DEF SeenInv
  <1>3. disk' # before' => Imei!Shaped("write-imei")'
    BY <1>1, ShapedStable DEF ParseInv
  <1>4. pc' \in {"parse", "exit"} \/ (command' # "none" /\ pc' \in Running(command)')
    BY <1>1 DEF Running
  <1>5. QED
    BY <1>1, <1>2, <1>3, <1>4 DEF ParseInv, Imei!NeedsFile, Imei!HasImei

(* Few elements of argv mean few tokens. *)
LEMMA FewTokens ==
    ASSUME ParseInv
    PROVE  /\ Imei!argc = 2 => Len(line) = 1
           /\ Imei!argc \in {2, 3} => Len(line) <= 2
           /\ Taken(next) = 0 => next = 0
           /\ Taken(next) = 1 <=> next = 1 /\ line[1].n = 1
  <1>1. LineInv /\ Len(line) \in Nat /\ next \in 0..Len(line)
    BY DEF ParseInv, LineInv
  <1>2. /\ Taken(0) = 0 /\ Imei!argc = 1 + Taken(Len(line))
        /\ Len(line) >= 1 => Taken(1) = line[1].n
        /\ Len(line) >= 2 => Taken(2) = line[1].n + line[2].n
        /\ Len(line) >= 3 => Taken(3) >= 3
    BY <1>1, TakenFirst
  <1>3. /\ Len(line) >= 1 => line[1].n \in {1, 2}
        /\ Len(line) >= 2 => line[2].n \in {1, 2}
    <2>1. /\ Len(line) >= 1 => Imei!IsToken(line[1])
          /\ Len(line) >= 2 => Imei!IsToken(line[2])
      BY <1>1 DEF LineInv
    <2>2. QED
      BY <2>1 DEF Imei!IsToken
  <1>4. /\ Len(line) >= 2 => Taken(2) <= Taken(Len(line))
        /\ Len(line) >= 3 => Taken(3) <= Taken(Len(line))
        /\ next >= 1 => Taken(1) <= Taken(next)
        /\ next >= 2 => Taken(2) <= Taken(next)
    BY <1>1, TakenGrows
  <1>5. /\ Taken(1) \in Nat /\ Taken(2) \in Nat /\ Taken(3) \in Nat
        /\ Taken(next) \in Nat /\ Taken(Len(line)) \in Nat
    BY <1>1, TakenIsNat
  <1>6. Imei!argc = 2 => Len(line) = 1
    <2>1. CASE Len(line) = 0
      BY <1>2, <2>1
    <2>2. CASE Len(line) >= 2
      BY <1>2, <1>3, <1>4, <1>5, <2>2
    <2>3. \A k \in Nat : k = 0 \/ k = 1 \/ k >= 2
      OBVIOUS
    <2>4. QED
      BY <1>1, <2>1, <2>2, <2>3
  <1>7. Imei!argc \in {2, 3} => Len(line) <= 2
    BY <1>1, <1>2, <1>4, <1>5
  <1>8. /\ Taken(next) = 0 => next = 0
        /\ Taken(next) = 1 <=> next = 1 /\ line[1].n = 1
    <2>1. CASE next = 0
      BY <1>2, <2>1
    <2>2. CASE next = 1
      BY <1>1, <1>2, <1>3, <2>2
    <2>3. CASE next >= 2
      BY <1>1, <1>2, <1>3, <1>4, <1>5, <2>3
    <2>4. QED
      BY <1>1, <2>1, <2>2, <2>3
  <1>9. QED
    BY <1>6, <1>7, <1>8

(* A token of another kind leaves what was seen as it is. *)
LEMMA OtherKind ==
    ASSUME next \in Nat, next' = next + 1, UNCHANGED line
    PROVE  /\ ImeiSeen /\ line[next + 1].kind # "i" /\ UNCHANGED imei => ImeiSeen'
           /\ OffsetSeen /\ line[next + 1].kind # "o" /\ UNCHANGED offset => OffsetSeen'
  <1>1. \A j \in 1..next' : j \in 1..next \/ j = next + 1
    OBVIOUS
  <1>2. 1..next \subseteq 1..next'
    OBVIOUS
  <1>3. ASSUME ImeiSeen, line[next + 1].kind # "i", UNCHANGED imei PROVE ImeiSeen'
    <2>1. CASE imei = <<>> /\ \A j \in 1..next : line[j].kind # "i"
      BY <1>1, <1>3, <2>1 DEF ImeiSeen
    <2>2. ASSUME NEW j \in 1..next, line[j].kind = "i", imei = <<line[j].imei>>,
                 \A k \in 1..next : line[k].kind = "i" => k = j
          PROVE  ImeiSeen'
      <3>1. /\ j \in 1..next' /\ line'[j].kind = "i" /\ imei' = <<line'[j].imei>>
            /\ \A k \in 1..next' : line'[k].kind = "i" => k = j
        BY <1>1, <1>2, <1>3, <2>2
      <3>2. QED
        BY <3>1 DEF ImeiSeen
    <2>3. QED
      BY <1>3, <2>1, <2>2 DEF ImeiSeen
  <1>4. ASSUME OffsetSeen, line[next + 1].kind # "o", UNCHANGED offset PROVE OffsetSeen'
    <2>1. CASE offset = <<>> /\ \A j \in 1..next : line[j].kind # "o"
      BY <1>1, <1>4, <2>1 DEF OffsetSeen
    <2>2. ASSUME NEW j \in 1..next, line[j].kind = "o", offset = <<line[j].offset>>,
                 \A k \in 1..next : line[k].kind = "o" => k = j
          PROVE  OffsetSeen'
      <3>1. /\ j \in 1..next' /\ line'[j].kind = "o" /\ offset' = <<line'[j].offset>>
            /\ \A k \in 1..next' : line'[k].kind = "o" => k = j
        BY <1>1, <1>2, <1>4, <2>2
      <3>2. QED
        BY <3>1 DEF OffsetSeen
    <2>3. QED
      BY <1>4, <2>1, <2>2 DEF OffsetSeen
  <1>5. QED
    BY <1>3, <1>4

(* Turns for arguments. *)
LEMMA ArgumentSteps ==
    ASSUME ParseInv, Imei!ParseSingle \/ Imei!ParseCommand \/ Imei!ParseArgument
    PROVE  ParseInv'
  <1>0. /\ Imei!Parsing("arg") /\ UNCHANGED <<imei, offset>>
    BY DEF Imei!ParseSingle, Imei!ParseCommand, Imei!ParseArgument
  <1>1. /\ SeenInv /\ next \in Nat /\ line[next + 1].kind = "arg" /\ line[next + 1].n = 1
        /\ next' = next + 1 /\ optind' = 2 + Taken(next) /\ UNCHANGED line
        /\ Taken(next) \in Nat /\ next + 1 <= Len(line)
    <2>1. /\ SeenInv /\ next \in Nat /\ line[next + 1].kind = "arg"
          /\ Imei!IsToken(line[next + 1])
          /\ next' = next + 1 /\ optind' = 1 + Taken(next + 1) /\ UNCHANGED line
          /\ Taken(next + 1) = Taken(next) + line[next + 1].n
          /\ next + 1 \in 1..Len(line) /\ LineInv
      BY <1>0, ParsingFacts
    <2>2. line[next + 1].n = 1
      BY <2>1 DEF Imei!IsToken
    <2>3. Taken(next) \in Nat
      BY <2>1, TakenIsNat
    <2>4. QED
      BY <2>1, <2>2, <2>3 DEF LineInv
  <1>2. /\ \A j \in 1..next' : line'[j].kind \notin {"h", "?"}
        /\ ImeiSeen' /\ OffsetSeen'
    <2>1. \A j \in 1..next' : line'[j].kind \notin {"h", "?"}
      BY <1>1 DEF SeenInv
    <2>2. QED
      BY <1>0, <1>1, <2>1, OtherKind DEF SeenInv
  <1>3. CASE Imei!ParseSingle
    <2>1. pc' = "exit" /\ exit' \in {"OK", "USAGE"} /\ UNCHANGED command
      BY <1>3 DEF Imei!ParseSingle, Imei!SysExit, Imei!Exit
    <2>2. next = 0
      BY <1>1, <1>3, FewTokens DEF Imei!ParseSingle
    <2>3. command = "none"
      BY <1>1, <2>2 DEF SeenInv, CommandSeen, Named
    <2>4. Len(line) = 1
      BY <1>3, FewTokens DEF Imei!ParseSingle
    <2>5. \A cmd \in Imei!NeedsFile : ~Imei!Shaped(cmd)
      BY <2>4 DEF Imei!Shaped
    <2>6. QED
      BY <1>0, <2>1, <2>3, <2>5, ParsingExits
  <1>4. CASE Imei!ParseCommand
    <2>1. next = 1 /\ line[1].n = 1
      BY <1>1, <1>4, FewTokens DEF Imei!ParseCommand
    <2>2. CASE line[2].name \in Imei!NeedsFile
      <3>1. command' = line[2].name /\ Imei!Continue
        BY <1>4, <2>1, <2>2 DEF Imei!ParseCommand, Imei!Current
      <3>2. CommandSeen'
        BY <1>1, <2>1, <2>2, <3>1 DEF CommandSeen, Named, Imei!NeedsFile
      <3>3. QED
        BY <1>0, <1>2, <3>1, <3>2, ParsingContinues DEF SeenInv
    <2>3. CASE line[2].name \notin Imei!NeedsFile
      <3>1. pc' = "exit" /\ exit' = "USAGE" /\ UNCHANGED command
        BY <1>4, <2>1, <2>3 DEF Imei!ParseCommand, Imei!Current, Imei!Exit
      <3>2. \A cmd \in Imei!NeedsFile : ~Imei!Shaped(cmd)
        BY <2>3 DEF Imei!Shaped, Imei!Arg, Imei!Token
      <3>3. command \in {"none"} \union Imei!NeedsFile
        BY DEF ParseInv
      <3>4. QED
        BY <1>0, <3>1, <3>2, <3>3, ParsingExits
    <2>4. QED
      BY <2>2, <2>3
  <1>5. CASE Imei!ParseArgument
    <2>1. ~(next = 1 /\ line[1].n = 1)
      BY <1>1, <1>5, FewTokens DEF Imei!ParseArgument
    <2>2. UNCHANGED command /\ Imei!Continue
      BY <1>5 DEF Imei!ParseArgument
    <2>3. CommandSeen'
      BY <1>1, <2>1, <2>2 DEF SeenInv, CommandSeen, Named, Imei!NeedsFile
    <2>4. QED
      BY <1>0, <1>2, <2>2, <2>3, ParsingContinues DEF SeenInv
  <1>6. QED
    BY <1>3, <1>4, <1>5

(* Turns for -h and for unknown options. *)
LEMMA LeavingSteps ==
    ASSUME ParseInv, Imei!ParseHelp \/ Imei!ParseUnknown
    PROVE  ParseInv'
  <1>1. CASE Imei!ParseHelp
    <2>1. /\ Imei!Parsing("h") /\ pc' = "exit" /\ UNCHANGED command
          /\ exit' = "USAGE" \/ Imei!argc \in {2, 3}
      BY <1>1 DEF Imei!ParseHelp, Imei!Exit
    <2>2. /\ SeenInv /\ next + 1 \in 1..Len(line) /\ line[next + 1].kind = "h"
          /\ next \in Nat /\ LineInv
      BY <2>1, ParsingFacts
    <2>3. next + 1 \in Imei!Given("h")
      BY <2>2 DEF Imei!Given, LineInv
    <2>4. \A cmd \in Imei!NeedsFile : ~Imei!Shaped(cmd)
      BY <2>3 DEF Imei!Shaped
    <2>5. exit' = "OK" => command = "none"
      BY <2>1, <2>2, FewTokens DEF SeenInv, CommandSeen, Named, LineInv
    <2>6. command \in {"none"} \union Imei!NeedsFile
      BY DEF ParseInv
    <2>7. QED
      BY <2>1, <2>4, <2>5, <2>6, ParsingExits
  <1>2. CASE Imei!ParseUnknown
    <2>1. /\ Imei!Parsing("?") /\ pc' = "exit" /\ exit' = "USAGE" /\ UNCHANGED command
      BY <1>2 DEF Imei!ParseUnknown, Imei!Exit
    <2>2. next + 1 \in 1..Len(line) /\ line[next + 1].kind = "?" /\ LineInv
      BY <2>1, ParsingFacts
    <2>3. next + 1 \in Imei!Given("?")
      BY <2>2 DEF Imei!Given, LineInv
    <2>4. \A cmd \in Imei!NeedsFile : ~Imei!Shaped(cmd)
      BY <2>3 DEF Imei!Shaped
    <2>5. command \in {"none"} \union Imei!NeedsFile
      BY DEF ParseInv
    <2>6. QED
      BY <2>1, <2>4, <2>5, ParsingExits
  <1>3. QED
    BY <1>1, <1>2

(* Turns for -i and -o. *)
LEMMA OptionSteps ==
    ASSUME ParseInv, Imei!ParseImei \/ Imei!ParseOffset
    PROVE  ParseInv'
  <1>1. PICK kind \in {"i", "o"} :
            /\ Imei!Parsing(kind) /\ UNCHANGED <<command>>
            /\ kind = "i" => Imei!ParseImei
            /\ kind = "o" => Imei!ParseOffset
    BY DEF Imei!ParseImei, Imei!ParseOffset
  <1>2. /\ SeenInv /\ next \in Nat /\ next + 1 \in 1..Len(line) /\ line[next + 1].kind = kind
        /\ next' = next + 1 /\ LineInv /\ UNCHANGED line
    BY <1>1, ParsingFacts
  <1>3. command \in {"none"} \union Imei!NeedsFile
    BY DEF ParseInv
  <1>4. \A j \in 1..next' : line'[j].kind \notin {"h", "?"}
    BY <1>1, <1>2 DEF SeenInv
  <1>5. CommandSeen'
    BY <1>1, <1>2 DEF SeenInv, CommandSeen, Named, Imei!NeedsFile
  <1>6. CASE kind = "i"
    <2>1. /\ imei' = <<line[next + 1].imei>> /\ UNCHANGED offset
          /\ IF imei # <<>> THEN Imei!Twice ELSE Imei!Continue
      BY <1>1, <1>6 DEF Imei!ParseImei, Imei!Current
    <2>2. OffsetSeen'
      BY <1>2, <1>6, <2>1, OtherKind DEF SeenInv
    <2>3. CASE imei = <<>>
      <3>1. \A j \in 1..next : line[j].kind # "i"
        BY <1>2, <2>3, OneElement DEF SeenInv, ImeiSeen
      <3>2. /\ next + 1 \in 1..next' /\ line'[next + 1].kind = "i"
            /\ imei' = <<line'[next + 1].imei>>
            /\ \A k \in 1..next' : line'[k].kind = "i" => k = next + 1
        BY <1>2, <1>6, <2>1, <3>1
      <3>3. ImeiSeen'
        BY <3>2 DEF ImeiSeen
      <3>4. QED
        BY <1>1, <1>4, <1>5, <2>1, <2>2, <2>3, <3>3, ParsingContinues DEF SeenInv
    <2>4. CASE imei # <<>>
      <3>1. pc' = "exit" /\ exit' \in {"segv", "USAGE"}
        BY <2>1, <2>4 DEF Imei!Twice, Imei!Exit
      <3>2. PICK j \in 1..next : line[j].kind = "i"
        BY <1>2, <2>4 DEF SeenInv, ImeiSeen
      <3>3. \A cmd \in Imei!NeedsFile : ~Imei!Shaped(cmd)
        <4>1. j \in 1..Len(line) /\ j # next + 1
          BY <1>2, <3>2 DEF LineInv
        <4>2. QED
          BY <1>2, <1>6, <3>2, <4>1, TwiceRefused
      <3>4. QED
        BY <1>1, <1>3, <3>1, <3>3, ParsingExits
    <2>5. QED
      BY <2>3, <2>4
  <1>7. CASE kind = "o"
    <2>1. /\ offset' = <<line[next + 1].offset>> /\ UNCHANGED imei
          /\ IF offset # <<>> THEN Imei!Twice ELSE Imei!Continue
      BY <1>1, <1>7 DEF Imei!ParseOffset, Imei!Current
    <2>2. ImeiSeen'
      BY <1>2, <1>7, <2>1, OtherKind DEF SeenInv
    <2>3. CASE offset = <<>>
      <3>1. \A j \in 1..next : line[j].kind # "o"
        BY <1>2, <2>3, OneElement DEF SeenInv, OffsetSeen
      <3>2. /\ next + 1 \in 1..next' /\ line'[next + 1].kind = "o"
            /\ offset' = <<line'[next + 1].offset>>
            /\ \A k \in 1..next' : line'[k].kind = "o" => k = next + 1
        BY <1>2, <1>7, <2>1, <3>1
      <3>3. OffsetSeen'
        BY <3>2 DEF OffsetSeen
      <3>4. QED
        BY <1>1, <1>4, <1>5, <2>1, <2>2, <2>3, <3>3, ParsingContinues DEF SeenInv
    <2>4. CASE offset # <<>>
      <3>1. pc' = "exit" /\ exit' \in {"segv", "USAGE"}
        BY <2>1, <2>4 DEF Imei!Twice, Imei!Exit
      <3>2. PICK j \in 1..next : line[j].kind = "o"
        BY <1>2, <2>4 DEF SeenInv, OffsetSeen
      <3>3. \A cmd \in Imei!NeedsFile : ~Imei!Shaped(cmd)
        <4>1. j \in 1..Len(line) /\ j # next + 1
          BY <1>2, <3>2 DEF LineInv
        <4>2. QED
          BY <1>2, <1>7, <3>2, <4>1, TwiceRefused
      <3>4. QED
        BY <1>1, <1>3, <3>1, <3>3, ParsingExits
    <2>5. QED
      BY <2>3, <2>4
  <1>8. QED
    BY <1>6, <1>7

(* The end of the line. *)
LEMMA EndStep ==
    ASSUME ParseInv, Imei!ParseEnd
    PROVE  ParseInv'
  <1>1. /\ pc = "parse" /\ next = Len(line)
        /\ UNCHANGED <<line, before, disk, next, optind, command, imei, offset>>
    BY DEF Imei!ParseEnd, Imei!parser
  <1>2. /\ SeenInv /\ LineInv /\ exit = "none" /\ next \in 0..Len(line)
        /\ optind = 1 + Taken(next) /\ command \in {"none"} \union Imei!NeedsFile
    BY <1>1 DEF ParseInv
  <1>3. /\ SeenInv' /\ LineInv' /\ next' \in 0..Len(line') /\ optind' = 1 + Taken(next)'
        /\ command' \in {"none"} \union Imei!NeedsFile
    BY <1>1, <1>2, SeenStable
  <1>4. disk' # before' => Imei!Shaped("write-imei")'
    BY <1>1, ShapedStable DEF ParseInv
  <1>5. CASE command = "none" \/ Imei!ImeiRefused \/ Imei!OffsetRefused
    <2>1. pc' = "exit" /\ exit' = "USAGE"
      BY <1>5 DEF Imei!ParseEnd, Imei!Exit
    <2>2. \A cmd \in Imei!NeedsFile : ~Imei!Shaped(cmd)'
      BY <1>1, <1>2, <1>5, EndRefuses, ShapedStable
    <2>3. QED
      BY <1>3, <1>4, <2>1, <2>2 DEF ParseInv, Imei!NeedsFile, Imei!HasImei
  <1>6. CASE ~(command = "none" \/ Imei!ImeiRefused \/ Imei!OffsetRefused)
    <2>1. pc' = command /\ exit' = "none"
      BY <1>2, <1>6 DEF Imei!ParseEnd
    <2>2. pc' \notin {"parse", "exit"} /\ pc' \in Running(command)'
      BY <1>1, <1>2, <1>6, <2>1, CommandTable DEF Running
    <2>3. Imei!Shaped(command)'
      BY <1>1, <1>2, <1>6, EndRuns DEF Imei!Shaped, Imei!Given
    <2>4. ~Imei!ImeiRefused' /\ ~Imei!OffsetRefused'
      BY <1>1, <1>6, RefusedStable
    <2>5. QED
      BY <1>1, <1>3, <1>4, <1>6, <2>1, <2>2, <2>3, <2>4
      DEF ParseInv, Imei!NeedsFile, Imei!HasImei
  <1>7. QED
    BY <1>5, <1>6

(* The places of the commands. *)
LEMMA Places ==
    ASSUME ParseInv
    PROVE  /\ pc = "read-imei" => command = "read-imei"
           /\ pc \in {"write-imei", "md5"} => command = "write-imei"
           /\ pc \in {"bruteforce-imei", "search"} => command = "bruteforce-imei"
           /\ Running("read-imei") = {"read-imei"}
           /\ Running("write-imei") = {"write-imei", "md5"}
           /\ Running("bruteforce-imei") = {"bruteforce-imei", "search"}
  BY CommandTable DEF ParseInv, Running

(* The codes of sysexits.h that a command's return value becomes. *)
LEMMA SysExits ==
    ASSUME NEW c \in {"0", "EACCES", "-1"}, Imei!SysExit(c)
    PROVE  /\ pc' = "exit" /\ exit' \in {"OK", "NOINPUT", "abort"}
           /\ exit' = "OK" <=> c = "0"
  BY DEF Imei!SysExit, Imei!Exit

(* Steps of the commands do not go back to the line. *)
LEMMA CommandSteps ==
    ASSUME ParseInv,
           \/ Imei!ReadImei \/ Imei!ReadImeiFails
           \/ Imei!WriteImei \/ Imei!WriteImeiDenied \/ Imei!WriteImeiFails
           \/ Imei!WriteMd5 \/ Imei!WriteMd5NoSum \/ Imei!WriteMd5Fails
           \/ Imei!SearchStart \/ Imei!SearchStartFails \/ Imei!SearchStep \/ Imei!SearchEnd
    PROVE  ParseInv'
  <1>1. CASE Imei!ReadImei
    <2>1. /\ pc = "read-imei"
          /\ UNCHANGED <<line, before, disk, next, optind, command, imei, offset>>
          /\ pc' = "exit" /\ exit' \in {"OK", "segv"}
      BY <1>1, SysExits DEF Imei!ReadImei, Imei!Exit, Imei!parser
    <2>2. QED
      BY <2>1, CommandRuns
  <1>2. CASE Imei!ReadImeiFails
    <2>1. /\ pc = "read-imei"
          /\ UNCHANGED <<line, before, disk, next, optind, command, imei, offset>>
          /\ pc' = "exit" /\ exit' # "USAGE"
      BY <1>2, SysExits DEF Imei!ReadImeiFails, Imei!parser
    <2>2. QED
      BY <2>1, CommandRuns
  <1>3. CASE Imei!WriteImei
    <2>1. /\ pc = "write-imei" /\ UNCHANGED <<line, before, next, optind, command, imei, offset>>
          /\ pc' = "md5" /\ exit' = exit
      BY <1>3 DEF Imei!WriteImei, Imei!parser
    <2>2. command = "write-imei" /\ pc' \in Running(command)
      BY <2>1, Places
    <2>3. QED
      BY <2>1, <2>2, CommandRuns
  <1>4. CASE Imei!WriteImeiDenied \/ Imei!WriteImeiFails
    <2>1. /\ pc = "write-imei" /\ UNCHANGED <<line, before, next, optind, command, imei, offset>>
          /\ pc' = "exit" /\ exit' # "USAGE"
      BY <1>4, SysExits DEF Imei!WriteImeiDenied, Imei!WriteImeiFails, Imei!parser
    <2>2. QED
      BY <2>1, Places, CommandRuns
  <1>5. CASE Imei!WriteMd5 \/ Imei!WriteMd5NoSum \/ Imei!WriteMd5Fails
    <2>1. /\ pc = "md5" /\ UNCHANGED <<line, before, disk, next, optind, command, imei, offset>>
          /\ pc' = "exit" /\ exit' # "USAGE"
      BY <1>5, SysExits DEF Imei!WriteMd5, Imei!WriteMd5NoSum, Imei!WriteMd5Fails, Imei!parser
    <2>2. QED
      BY <2>1, CommandRuns
  <1>6. CASE Imei!SearchStart
    <2>1. /\ pc = "bruteforce-imei"
          /\ UNCHANGED <<line, before, disk, next, optind, command, imei, offset>>
          /\ pc' = "search" /\ exit' = exit
      BY <1>6 DEF Imei!SearchStart, Imei!parser
    <2>2. command = "bruteforce-imei" /\ pc' \in Running(command)
      BY <2>1, Places
    <2>3. QED
      BY <2>1, <2>2, CommandRuns
  <1>7. CASE Imei!SearchStep
    <2>1. /\ pc = "search"
          /\ UNCHANGED <<pc, exit, line, before, disk, next, optind, command, imei, offset>>
      BY <1>7 DEF Imei!SearchStep, Imei!parser
    <2>2. command = "bruteforce-imei" /\ pc' \in Running(command)
      BY <2>1, Places
    <2>3. QED
      BY <2>1, <2>2, CommandRuns
  <1>8. CASE Imei!SearchStartFails \/ Imei!SearchEnd
    <2>1. /\ pc \in {"bruteforce-imei", "search"}
          /\ UNCHANGED <<line, before, disk, next, optind, command, imei, offset>>
          /\ pc' = "exit" /\ exit' # "USAGE"
      BY <1>8, SysExits DEF Imei!SearchStartFails, Imei!SearchEnd, Imei!parser
    <2>2. QED
      BY <2>1, CommandRuns
  <1>9. QED
    BY <1>1, <1>2, <1>3, <1>4, <1>5, <1>6, <1>7, <1>8

(* At first no token is read. *)
LEMMA ParseInit ==
    ASSUME Imei!Init
    PROVE  ParseInv
  <1>1. LineInv
    <2>1. CASE \E k \in 0..MaxTokens : line \in [1..k -> Tokens]
      <3>1. PICK k \in Nat : line \in [1..k -> Tokens]
        BY <2>1, ImeiAssumption DEF Imei!LinesAssumption
      <3>2. Len(line) = k /\ DOMAIN line = 1..k /\ \A j \in 1..k : line[j] \in Tokens
        BY <3>1
      <3>3. QED
        BY <3>2, ImeiAssumption DEF LineInv, Imei!LinesAssumption
    <2>2. CASE line \in Runs
      BY <2>2, ImeiAssumption DEF LineInv, Imei!LinesAssumption
    <2>3. QED
      BY <2>1, <2>2 DEF Imei!Init
  <1>2. /\ next = 0 /\ optind = 1 /\ command = "none" /\ imei = <<>> /\ offset = <<>>
        /\ pc = "parse" /\ exit = "none" /\ before = disk
    BY DEF Imei!Init
  <1>3. optind = 1 + Taken(next)
    BY <1>1, <1>2, TakenFirst
  <1>4. SeenInv
    BY <1>2 DEF SeenInv, ImeiSeen, OffsetSeen, CommandSeen, Named
  <1>5. next \in 0..Len(line)
    BY <1>1, <1>2 DEF LineInv
  <1>6. QED
    BY <1>1, <1>2, <1>3, <1>4, <1>5 DEF ParseInv

(* Every step keeps what parsing has found out. *)
LEMMA ParseSteps ==
    ASSUME ParseInv, Imei!Next
    PROVE  ParseInv'
  <1>1. CASE Imei!Done
    BY <1>1 DEF Imei!Done, Imei!vars, Imei!parser, ParseInv, LineInv, Taken, Imei!Elements,
        SeenInv, ImeiSeen, OffsetSeen, CommandSeen, Named, Imei!ImeiRefused,
        Imei!OffsetRefused, Imei!Shaped, Imei!Given, Running
  <1>2. QED
    BY <1>1, ArgumentSteps, LeavingSteps, OptionSteps, EndStep, CommandSteps DEF Imei!Next

(***************************************************************************)
(* The files.                                                              *)
(***************************************************************************)
Written ==
    /\ path \in DOMAIN disk
    /\ disk[path] = Imei!Spliced(Imei!Before, Imei!Code, Imei!Target)

(* What a write has done to the files. *)
WriteInv ==
    /\ \A f \in DOMAIN before : before[f] \in Seq(Imei!Bytes)
    /\ pc \notin {"md5", "exit"} \/ command # "write-imei" => disk = before
    /\ pc = "md5" => Written
    /\ exit = "OK" /\ command = "write-imei" =>
          /\ Written /\ Len(disk[path]) = Size
          /\ path \in DOMAIN md5 /\ md5[path] = disk[path]

(* The search has passed no place that holds the IMEI.                     *)
Searching ==
    LET L == Len(disk[path])
    IN  /\ path \in DOMAIN disk
        /\ \E b \in Beyond : mem = disk[path] \o b
        /\ ptr \in 0..(L + 1) /\ search_size \in Int /\ ptr + search_size \in {L, L + 1}
        /\ \A p \in found : p \in 0..L /\ Imei!Same(p)
        /\ \A p \in 0..(ptr - 1) : Imei!Same(p) => p \in found

(* What a search has found. *)
SearchInv ==
    /\ pc \notin {"search", "exit"} => found = {}
    /\ pc = "search" => Searching
    /\ exit = "OK" /\ command = "bruteforce-imei" => Searching /\ Imei!Hits = {}

(* An IMEI of an odd number of digits fills whole bytes with its marker. *)
LEMMA ImeiSizes ==
    /\ ImeiLength \in Nat /\ ImeiLength % 2 = 1 /\ Size \in Nat
    /\ UIntRange \in Nat /\ UIntRange > 0
    /\ Imei!CodeLength \in Nat \ {0} /\ 2 * Imei!CodeLength = ImeiLength + 1
  <1>1. /\ ImeiLength \in Nat /\ ImeiLength % 2 = 1 /\ Size \in Nat
        /\ UIntRange \in Nat /\ UIntRange > 0
    BY ImeiAssumption DEF Imei!SizesAssumption
  <1>2. QED
    BY <1>1 DEF Imei!CodeLength

(* The encoded IMEI has a byte for every two digits. *)
LEMMA CodeFacts ==
    /\ DOMAIN Imei!Code = 1..Imei!CodeLength /\ Len(Imei!Code) = Imei!CodeLength
    /\ Imei!Code = [b \in 1..Imei!CodeLength |-> Imei!Code[b]]
  BY ImeiSizes DEF Imei!Code, Imei!Encode

(* decode_imei undoes encode_imei. *)
LEMMA DecodeEncode ==
    ASSUME NEW id \in Seq(Int), Len(id) = ImeiLength, NEW code,
           \A b \in 1..Imei!CodeLength : code[b] = Imei!Encode(id)[b]
    PROVE  Imei!Decode(code) = id
  <1>1. /\ ImeiLength \in Nat /\ ImeiLength % 2 = 1
        /\ Imei!CodeLength \in Nat \ {0} /\ 2 * Imei!CodeLength = ImeiLength + 1
    BY ImeiSizes
  <1>2. ASSUME NEW d \in 1..ImeiLength PROVE Imei!Decode(code)[d] = id[d]
    <2>1. CASE d = 1
      <3>0. 1 \in 1..Imei!CodeLength
        BY <1>1
      <3>1. code[1] = <<id[1], 10>>
        BY <3>0 DEF Imei!Encode
      <3>2. Imei!Decode(code)[d] = code[1][1]
        BY <1>2, <2>1 DEF Imei!Decode
      <3>3. QED
        BY <2>1, <3>1, <3>2
    <2>2. CASE d # 1
      <3> DEFINE b == d \div 2 + 1
      <3>1. b \in 1..Imei!CodeLength /\ b # 1
        BY <1>1, <1>2, <2>2
      <3>2. d % 2 = 0 => 2 * b - 2 = d
        BY <1>2
      <3>3. d % 2 # 0 => 2 * b - 1 = d
        BY <1>2
      <3>4. Imei!Decode(code)[d] = code[b][IF d % 2 = 0 THEN 2 ELSE 1]
        BY <1>2, <2>2 DEF Imei!Decode
      <3> HIDE DEF b
      <3>5. code[b] = <<id[2 * b - 1], id[2 * b - 2]>>
        BY <3>1 DEF Imei!Encode
      <3>6. QED
        BY <3>2, <3>3, <3>4, <3>5
    <2>3. QED
      BY <2>1, <2>2
  <1>3. Imei!Decode(code) = [d \in 1..ImeiLength |-> Imei!Decode(code)[d]]
    BY DEF Imei!Decode
  <1>4. id = [d \in 1..ImeiLength |-> id[d]]
    BY <1>1
  <1>5. QED
    BY <1>2, <1>3, <1>4

(* A write at an offset changes its bytes only, and may extend the file. *)
LEMMA SplicedFacts ==
    ASSUME NEW file \in Seq(Imei!Bytes), NEW o \in Nat
    PROVE  LET new == Imei!Spliced(file, Imei!Code, o)
           IN  /\ Len(new) \in Nat /\ DOMAIN new = 1..Len(new)
               /\ Len(new) >= o + Imei!CodeLength /\ Len(new) >= Len(file)
               /\ \A b \in 1..Imei!CodeLength : new[o + b] = Imei!Code[b]
               /\ \A b \in 1..Len(file) :
                     b \notin (o + 1)..(o + Imei!CodeLength) => new[b] = file[b]
  <1> DEFINE n0 == IF o + Len(Imei!Code) > Len(file) THEN o + Len(Imei!Code) ELSE Len(file)
             new == Imei!Spliced(file, Imei!Code, o)
  <1>1. Len(file) \in Nat /\ Len(Imei!Code) = Imei!CodeLength /\ Imei!CodeLength \in Nat
    BY CodeFacts, ImeiSizes
  <1>2. n0 \in Nat /\ n0 >= o + Imei!CodeLength /\ n0 >= Len(file)
    BY <1>1
  <1>3. new = [b \in 1..n0 |->
                 IF b > o /\ b <= o + Len(Imei!Code) THEN Imei!Code[b - o]
                 ELSE IF b <= Len(file) THEN file[b] ELSE Imei!Nul]
    BY DEF Imei!Spliced
  <1> HIDE DEF n0, new
  <1>4. Len(new) = n0 /\ DOMAIN new = 1..n0
    BY <1>2, <1>3
  <1>5. \A b \in 1..Imei!CodeLength : new[o + b] = Imei!Code[b]
    <2>1. SUFFICES ASSUME NEW b \in 1..Imei!CodeLength PROVE new[o + b] = Imei!Code[b]
      OBVIOUS
    <2>2. o + b \in 1..n0 /\ o + b > o /\ o + b <= o + Len(Imei!Code) /\ (o + b) - o = b
      BY <1>1, <1>2, <2>1
    <2>3. QED
      BY <1>3, <2>2
  <1>6. \A b \in 1..Len(file) : b \notin (o + 1)..(o + Imei!CodeLength) => new[b] = file[b]
    <2>1. SUFFICES ASSUME NEW b \in 1..Len(file), b \notin (o + 1)..(o + Imei!CodeLength)
                   PROVE  new[b] = file[b]
      OBVIOUS
    <2>2. b \in 1..n0 /\ ~(b > o /\ b <= o + Len(Imei!Code)) /\ b <= Len(file)
      BY <1>1, <1>2, <2>1
    <2>3. QED
      BY <1>3, <2>2
  <1>7. QED
    BY <1>2, <1>4, <1>5, <1>6 DEF new

(* What a refused option is not, the commands may rely on. *)
LEMMA ValuesRight ==
    ASSUME LineInv, ImeiSeen, OffsetSeen, next \in 0..Len(line),
           ~Imei!ImeiRefused, ~Imei!OffsetRefused, command \in Imei!HasImei
    PROVE  /\ imei[1] \in Seq(Int) /\ Len(imei[1]) = ImeiLength
           /\ Imei!Offset \in Nat /\ Imei!Target \in Nat
  <1>1. imei # <<>> /\ Imei!ImeiValid(imei[1])
    BY CommandTable DEF Imei!ImeiRefused
  <1>2. imei[1] \in Seq(Int)
    <2>1. PICK j \in 1..next : imei = <<line[j].imei>>
      BY <1>1 DEF ImeiSeen
    <2>2. Imei!IsToken(line[j])
      BY <2>1 DEF LineInv
    <2>3. QED
      BY <2>1, <2>2, OneElement DEF Imei!IsToken
  <1>3. Imei!Offset \in Nat
    <2>1. CASE offset = <<>>
      BY <2>1 DEF Imei!Offset
    <2>2. CASE offset # <<>>
      <3>1. PICK j \in 1..next : offset = <<line[j].offset>>
        BY <2>2 DEF OffsetSeen
      <3>2. Imei!IsToken(line[j])
        BY <3>1 DEF LineInv
      <3>3. offset[1] \in Nat \union {Imei!Negative, Imei!TooBig, Imei!Junk}
        BY <3>1, <3>2, OneElement DEF Imei!IsToken
      <3>4. offset[1] \notin {Imei!Negative, Imei!TooBig}
        BY <2>2 DEF Imei!OffsetRefused
      <3>5. QED
        BY <2>2, <3>3, <3>4 DEF Imei!Offset
    <2>3. QED
      BY <2>1, <2>2
  <1>4. QED
    BY <1>1, <1>2, <1>3, ImeiSizes DEF Imei!ImeiValid, Imei!Target

(* Leaving with OK while the line is parsed: no command was set. *)
LEMMA OkWithoutCommand ==
    ASSUME ParseInv, Imei!ParseSingle \/ Imei!ParseHelp, exit' = "OK"
    PROVE  command' = "none"
  <1>1. CASE Imei!ParseSingle
    <2>1. /\ SeenInv /\ next \in Nat /\ optind' = 1 + Taken(next + 1) /\ UNCHANGED command
          /\ line[next + 1].n \in {1, 2} /\ Taken(next + 1) = Taken(next) + line[next + 1].n
      BY <1>1, ParsingFacts DEF Imei!ParseSingle
    <2>2. Taken(next) \in Nat
      BY <2>1, TakenIsNat
    <2>3. next = 0
      BY <1>1, <2>1, <2>2, FewTokens DEF Imei!ParseSingle
    <2>4. QED
      BY <2>1, <2>3 DEF SeenInv, CommandSeen, Named
  <1>2. CASE Imei!ParseHelp
    <2>1. Imei!Parsing("h") /\ UNCHANGED command /\ Imei!argc \in {2, 3}
      BY <1>2 DEF Imei!ParseHelp, Imei!Exit
    <2>2. SeenInv /\ next + 1 \in 1..Len(line) /\ next \in Nat /\ LineInv
      BY <2>1, ParsingFacts
    <2>3. QED
      BY <2>1, <2>2, FewTokens DEF SeenInv, CommandSeen, Named, LineInv
  <1>3. QED
    BY <1>1, <1>2

(* At first nothing is written. *)
LEMMA WriteInit ==
    ASSUME Imei!Init
    PROVE  WriteInv
  <1>1. \A f \in DOMAIN before : before[f] \in Seq(Imei!Bytes)
    <2>1. CASE disk = <<>>
      BY <2>1 DEF Imei!Init
    <2>2. CASE \E f \in Files \union {Sample} : disk = [FILE |-> f]
      BY <2>2, ImeiAssumption DEF Imei!Init, Imei!FilesAssumption
    <2>3. QED
      BY <2>1, <2>2 DEF Imei!Init
  <1>2. QED
    BY <1>1 DEF Imei!Init, WriteInv

(* Steps that neither write nor leave with OK. *)
LEMMA WriteIdle ==
    ASSUME WriteInv, UNCHANGED <<before, disk>>, pc' # "md5",
           exit' = "OK" => command' # "write-imei",
           pc' \notin {"md5", "exit"} \/ command' # "write-imei" =>
               pc \notin {"md5", "exit"} \/ command # "write-imei"
    PROVE  WriteInv'
  BY DEF WriteInv

(* The actions, by the place where they run. *)
LEMMA ByPlace ==
    ASSUME Imei!Next
    PROVE  \/ /\ pc = "parse"
              /\ \/ Imei!ParseSingle \/ Imei!ParseCommand \/ Imei!ParseArgument
                 \/ Imei!ParseHelp \/ Imei!ParseImei \/ Imei!ParseOffset
                 \/ Imei!ParseUnknown \/ Imei!ParseEnd
           \/ pc = "read-imei" /\ (Imei!ReadImei \/ Imei!ReadImeiFails)
           \/ pc = "write-imei" /\ (Imei!WriteImei \/ Imei!WriteImeiDenied \/ Imei!WriteImeiFails)
           \/ pc = "md5" /\ (Imei!WriteMd5 \/ Imei!WriteMd5NoSum \/ Imei!WriteMd5Fails)
           \/ pc = "bruteforce-imei" /\ (Imei!SearchStart \/ Imei!SearchStartFails)
           \/ pc = "search" /\ (Imei!SearchStep \/ Imei!SearchEnd)
           \/ pc = "exit" /\ Imei!Done
  BY DEF Imei!Next, Imei!ParseSingle, Imei!ParseCommand, Imei!ParseArgument,
      Imei!ParseHelp, Imei!ParseUnknown, Imei!ParseImei, Imei!ParseOffset,
      Imei!ParseEnd, Imei!Parsing, Imei!ReadImei, Imei!ReadImeiFails, Imei!WriteImei,
      Imei!WriteImeiDenied, Imei!WriteImeiFails, Imei!WriteMd5, Imei!WriteMd5NoSum,
      Imei!WriteMd5Fails, Imei!SearchStart, Imei!SearchStartFails, Imei!SearchStep,
      Imei!SearchEnd, Imei!Done

(* Parsing touches no file and no search, and leaves with OK only when no  *)
(* command was set.                                                        *)
LEMMA ParsingTouchesNothing ==
    ASSUME ParseInv, Imei!Next, pc = "parse"
    PROVE  /\ UNCHANGED <<before, disk, md5, mem, ptr, search_size, found>>
           /\ pc' \in {"parse", "exit", "read-imei", "write-imei", "bruteforce-imei"}
           /\ exit' = "OK" => command' = "none"
  <1>1. \/ Imei!ParseSingle \/ Imei!ParseCommand \/ Imei!ParseArgument
        \/ Imei!ParseHelp \/ Imei!ParseImei \/ Imei!ParseOffset
        \/ Imei!ParseUnknown \/ Imei!ParseEnd
    BY ByPlace
  <1>2. /\ UNCHANGED <<before, disk, md5, mem, ptr, search_size, found>>
        /\ pc' = "parse" \/ pc' = "exit" \/ (pc' = command /\ command # "none")
    BY <1>1 DEF Imei!ParseSingle, Imei!ParseCommand, Imei!ParseArgument,
        Imei!ParseHelp, Imei!ParseUnknown, Imei!ParseImei, Imei!ParseOffset, Imei!Twice,
        Imei!ParseEnd, Imei!Parsing, Imei!Continue, Imei!Exit, Imei!SysExit, Imei!parser,
        Imei!search
  <1>3. command \in {"none"} \union Imei!NeedsFile /\ exit = "none"
    BY DEF ParseInv
  <1>4. exit' = "OK" => Imei!ParseSingle \/ Imei!ParseHelp
    BY <1>1, <1>3 DEF Imei!ParseCommand, Imei!ParseArgument, Imei!ParseUnknown,
        Imei!ParseImei, Imei!ParseOffset, Imei!Twice, Imei!ParseEnd, Imei!Continue,
        Imei!Exit
  <1>5. QED
    BY <1>2, <1>3, <1>4, OkWithoutCommand, CommandTable

(* Every step keeps what write_imei has written. *)
LEMMA WriteSteps ==
    ASSUME ParseInv, WriteInv, Imei!Next
    PROVE  WriteInv'
  <1>0. exit # "OK" \/ pc = "exit"
    BY DEF ParseInv
  <1>1. CASE pc = "parse"
    BY <1>1, ParsingTouchesNothing, WriteIdle
  <1>2. CASE pc \in {"read-imei", "bruteforce-imei", "search"}
    <2>1. /\ UNCHANGED <<before, disk, command>> /\ pc' # "md5"
      BY <1>2, ByPlace DEF Imei!ReadImei, Imei!ReadImeiFails, Imei!SearchStart,
          Imei!SearchStartFails, Imei!SearchStep, Imei!SearchEnd, Imei!SysExit, Imei!Exit,
          Imei!parser
    <2>2. QED
      BY <1>2, <2>1, Places, WriteIdle
  <1>3. CASE Imei!WriteImei
    <2>1. /\ pc = "write-imei" /\ command = "write-imei" /\ exit = "none" /\ disk = before
      BY <1>3, Places DEF Imei!WriteImei, ParseInv, WriteInv
    <2>2. /\ disk' = Imei!Put(disk, Imei!Spliced(Imei!Old, Imei!Code, Imei!Target))
          /\ pc' = "md5" /\ UNCHANGED <<exit, before, command, path, imei, offset>>
      BY <1>3 DEF Imei!WriteImei, Imei!parser
    <2>3. /\ path \in DOMAIN disk'
          /\ disk'[path] = Imei!Spliced(Imei!Old, Imei!Code, Imei!Target)
      BY <2>2 DEF Imei!Put
    <2>4. Imei!Old = Imei!Before
      BY <2>1 DEF Imei!Old, Imei!Before
    <2>5. /\ Imei!Before' = Imei!Before /\ Imei!Code' = Imei!Code
          /\ Imei!Target' = Imei!Target
      BY <2>2 DEF Imei!Before, Imei!Code, Imei!Encode, Imei!Target, Imei!Offset
    <2>6. Imei!Spliced(Imei!Before, Imei!Code, Imei!Target)'
             = Imei!Spliced(Imei!Before, Imei!Code, Imei!Target)
      BY <2>5 DEF Imei!Spliced
    <2>7. Written'
      BY <2>2, <2>3, <2>4, <2>6 DEF Written
    <2>8. QED
      BY <2>1, <2>2, <2>7 DEF WriteInv
  <1>4. CASE Imei!WriteImeiDenied \/ Imei!WriteImeiFails
    <2>1. /\ pc' = "exit" /\ exit' # "OK" /\ UNCHANGED <<before, command>>
          /\ pc = "write-imei"
      BY <1>4, SysExits DEF Imei!WriteImeiDenied, Imei!WriteImeiFails, Imei!parser
    <2>2. command' = "write-imei"
      BY <2>1, Places
    <2>3. QED
      BY <2>1, <2>2 DEF WriteInv
  <1>5. CASE Imei!WriteMd5
    <2>1. /\ pc = "md5" /\ Len(disk[path]) = Size /\ md5' = Imei!Put(md5, disk[path])
          /\ pc' = "exit" /\ UNCHANGED <<before, disk, command, path, imei, offset>>
      BY <1>5, SysExits DEF Imei!WriteMd5, Imei!parser
    <2>2. command = "write-imei" /\ Written
      BY <2>1, Places DEF WriteInv
    <2>3. path \in DOMAIN md5' /\ md5'[path] = disk[path]
      BY <2>1 DEF Imei!Put
    <2>4. Written'
      BY <2>1, <2>2 DEF Written, Imei!Spliced, Imei!Before, Imei!Code, Imei!Encode,
          Imei!Target, Imei!Offset
    <2>5. QED
      BY <2>1, <2>2, <2>3, <2>4 DEF WriteInv
  <1>6. CASE Imei!WriteMd5NoSum \/ Imei!WriteMd5Fails
    <2>1. /\ pc' = "exit" /\ exit' # "OK" /\ UNCHANGED <<before, disk, command>>
          /\ pc = "md5"
      BY <1>6, SysExits DEF Imei!WriteMd5NoSum, Imei!WriteMd5Fails, Imei!parser
    <2>2. command' = "write-imei"
      BY <2>1, Places
    <2>3. QED
      BY <2>1, <2>2 DEF WriteInv
  <1>7. CASE pc = "exit" /\ Imei!Done
    <2>1. UNCHANGED <<before, disk, md5, pc, exit, command, path, imei, offset>>
      BY <1>7 DEF Imei!Done, Imei!vars, Imei!parser
    <2>2. Written' = Written
      BY <2>1 DEF Written, Imei!Spliced, Imei!Before, Imei!Code, Imei!Encode, Imei!Target,
          Imei!Offset
    <2>3. QED
      BY <2>1, <2>2 DEF WriteInv
  <1>8. QED
    BY <1>1, <1>2, <1>3, <1>4, <1>5, <1>6, <1>7, ByPlace

(* At first no search runs. *)
LEMMA SearchInit ==
    ASSUME Imei!Init
    PROVE  SearchInv
  BY DEF Imei!Init, SearchInv

(* A comparison depends on the memory and the IMEI. *)
LEMMA SameStable ==
    ASSUME UNCHANGED <<mem, imei>>, NEW p
    PROVE  Imei!Same(p)' = Imei!Same(p)
  BY DEF Imei!Same, Imei!Code, Imei!Encode

(* The places found so far depend on what is searched and where the search *)
(* is.                                                                     *)
LEMMA SearchStable ==
    ASSUME UNCHANGED <<disk, path, imei, mem, ptr, search_size, found>>
    PROVE  Searching' = Searching /\ Imei!Hits' = Imei!Hits
  <1>1. \A p : Imei!Same(p)' = Imei!Same(p)
    BY SameStable
  <1>2. Imei!Hits' = Imei!Hits
    BY DEF Imei!Hits, Imei!Code, Imei!Encode
  <1>3. QED
    BY <1>1, <1>2 DEF Searching

(* One hit of memchr: what lies before it is not the IMEI. *)
LEMMA SearchStepKeeps ==
    ASSUME Searching, Imei!SearchStep, disk[path] \in Seq(Imei!Bytes)
    PROVE  Searching'
  <1> DEFINE L == Len(disk[path])
             q == Imei!Min(Imei!Hits)
  <1>0. L \in Nat /\ Imei!CodeLength \in Nat \ {0}
    BY ImeiSizes
  <1>1. /\ ptr \in 0..(L + 1) /\ search_size \in Int /\ ptr + search_size \in {L, L + 1}
        /\ \A p \in found : p \in 0..L /\ Imei!Same(p)
        /\ \A p \in 0..(ptr - 1) : Imei!Same(p) => p \in found
        /\ path \in DOMAIN disk /\ \E b \in Beyond : mem = disk[path] \o b
    BY DEF Searching
  <1>2. q \in Imei!Hits /\ \A y \in Imei!Hits : q <= y
    <2>1. Imei!Hits # {}
      BY DEF Imei!SearchStep
    <2>2. Imei!Hits \subseteq ptr..(ptr + search_size - 1)
      BY DEF Imei!Hits
    <2>3. \A y \in ptr..(ptr + search_size - 1) : y \in Nat
      BY <1>0, <1>1
    <2>4. QED
      BY <2>1, <2>2, <2>3, LeastNat
  <1>3. /\ found' = IF Imei!Same(q) THEN found \union {q} ELSE found
        /\ search_size' = Imei!SearchSize(q) /\ ptr' = q + 1
        /\ UNCHANGED <<disk, path, imei, mem>>
    BY DEF Imei!SearchStep, Imei!parser
  <1>4. \A p : Imei!Same(p)' = Imei!Same(p)
    BY <1>3, SameStable
  <1>5. q \in ptr..(ptr + search_size - 1)
    BY <1>2 DEF Imei!Hits
  <1> HIDE DEF q
  <1>6. q \in 0..L /\ q >= ptr
    BY <1>0, <1>1, <1>5
  <1>7. ptr' \in 0..(L + 1) /\ search_size' \in Int /\ ptr' + search_size' \in {L, L + 1}
    <2>1. search_size' = L - q
      BY <1>3 DEF Imei!SearchSize
    <2> HIDE DEF L
    <2>2. QED
      BY <1>0, <1>3, <1>6, <2>1
  <1>8. \A p \in found' : p \in 0..L /\ Imei!Same(p)
    BY <1>1, <1>3, <1>6
  <1>9. \A p \in 0..(ptr' - 1) : Imei!Same(p) => p \in found'
    <2>1. SUFFICES ASSUME NEW p \in 0..(ptr' - 1), Imei!Same(p) PROVE p \in found'
      OBVIOUS
    <2>2. CASE p < ptr
      BY <1>0, <1>1, <1>3, <2>1, <2>2
    <2>3. CASE p = q
      BY <1>3, <2>1, <2>3
    <2>4. CASE p >= ptr /\ p # q
      <3>1. p \in ptr..(ptr + search_size - 1) /\ p < q
        BY <1>0, <1>1, <1>3, <1>5, <1>6, <2>1, <2>4
      <3>2. mem[p + 1] = Imei!Code[1]
        <4>1. 1 \in 1..Imei!CodeLength /\ \A j \in 1..(1 - 1) : Imei!Code[j] # Imei!Nul
          BY <1>0
        <4>2. QED
          BY <2>1, <4>1 DEF Imei!Same
      <3>3. p \in Imei!Hits
        BY <3>1, <3>2 DEF Imei!Hits
      <3>4. QED
        BY <1>0, <1>1, <1>2, <1>6, <3>1, <3>3
    <2>5. QED
      BY <1>0, <1>1, <1>3, <1>6, <2>1, <2>2, <2>3, <2>4
  <1>10. QED
    BY <1>1, <1>3, <1>4, <1>7, <1>8, <1>9 DEF Searching

(* Every step of bruteforce_imei keeps: all places before the pointer, and *)
(* only those, were shown.                                                 *)
LEMMA SearchSteps ==
    ASSUME ParseInv, WriteInv, SearchInv, Imei!Next
    PROVE  SearchInv'
  <1>0. exit # "OK" \/ pc = "exit"
    BY DEF ParseInv
  <1>1. CASE pc = "parse"
    BY <1>1, ParsingTouchesNothing DEF SearchInv
  <1>2. CASE pc \in {"read-imei", "write-imei", "md5"}
    <2>1. UNCHANGED <<found, command>> /\ pc' \in {"md5", "exit"}
      BY <1>2, ByPlace DEF Imei!ReadImei, Imei!ReadImeiFails, Imei!WriteImei,
          Imei!WriteImeiDenied, Imei!WriteImeiFails, Imei!WriteMd5, Imei!WriteMd5NoSum,
          Imei!WriteMd5Fails, Imei!SysExit, Imei!Exit, Imei!parser, Imei!search
    <2>2. command # "bruteforce-imei"
      BY <1>2, Places
    <2>3. QED
      BY <1>2, <2>1, <2>2 DEF SearchInv
  <1>3. CASE Imei!SearchStart
    <2>1. /\ pc = "bruteforce-imei" /\ path \in DOMAIN disk
          /\ \E b \in Beyond : mem' = disk[path] \o b
          /\ ptr' = 0 /\ search_size' = Len(disk[path]) /\ pc' = "search"
          /\ UNCHANGED <<exit, disk, path, found>>
      BY <1>3 DEF Imei!SearchStart, Imei!parser, Imei!Openable
    <2>2. found = {} /\ disk = before /\ exit = "none"
      BY <2>1, Places DEF SearchInv, WriteInv, ParseInv
    <2>3. Len(disk[path]) \in Nat
      BY <2>1, <2>2 DEF WriteInv
    <2>4. Searching'
      BY <2>1, <2>2, <2>3 DEF Searching
    <2>5. QED
      BY <2>1, <2>2, <2>4 DEF SearchInv
  <1>4. CASE Imei!SearchStartFails
    <2>1. pc' = "exit" /\ exit' # "OK"
      BY <1>4, SysExits DEF Imei!SearchStartFails
    <2>2. QED
      BY <2>1 DEF SearchInv
  <1>5. CASE Imei!SearchStep
    <2>1. pc = "search" /\ UNCHANGED <<pc, exit>>
      BY <1>5 DEF Imei!SearchStep
    <2>2. Searching /\ disk = before /\ exit = "none"
      BY <2>1, Places DEF SearchInv, WriteInv, ParseInv
    <2>3. disk[path] \in Seq(Imei!Bytes)
      BY <2>2 DEF Searching, WriteInv
    <2>4. Searching'
      BY <1>5, <2>2, <2>3, SearchStepKeeps
    <2>5. QED
      BY <2>1, <2>2, <2>4 DEF SearchInv
  <1>6. CASE Imei!SearchEnd
    <2>1. /\ pc = "search" /\ pc' = "exit" /\ Imei!Hits = {}
          /\ UNCHANGED <<disk, path, imei, mem, ptr, search_size, found>>
      BY <1>6, SysExits DEF Imei!SearchEnd, Imei!parser, Imei!search
    <2>2. Searching' /\ Imei!Hits' = {}
      BY <2>1, SearchStable DEF SearchInv
    <2>3. QED
      BY <2>1, <2>2 DEF SearchInv
  <1>7. CASE pc = "exit" /\ Imei!Done
    <2>1. UNCHANGED <<disk, pc, exit, command, path, imei, mem, ptr, search_size, found>>
      BY <1>7 DEF Imei!Done, Imei!vars, Imei!parser, Imei!search
    <2>2. QED
      BY <2>1, SearchStable DEF SearchInv
  <1>8. QED
    BY <1>1, <1>2, <1>3, <1>4, <1>5, <1>6, <1>7, ByPlace

(* The file that the first element names is the only one that changes. *)
FileInv ==
    /\ command # "none" => path = Imei!FileNamed
    /\ Imei!Others(disk) = Imei!Others(before)

(* Every step keeps the other files. *)
LEMMA FileSteps ==
    ASSUME ParseInv, FileInv, Imei!Next
    PROVE  FileInv'
  <1>1. UNCHANGED <<line, before>> /\ Imei!FileNamed' = Imei!FileNamed
    <2>1. UNCHANGED <<line, before>>
      BY ByPlace DEF Imei!ParseSingle, Imei!ParseCommand, Imei!ParseArgument,
          Imei!ParseHelp, Imei!ParseUnknown, Imei!ParseImei, Imei!ParseOffset,
          Imei!ParseEnd, Imei!Parsing, Imei!ReadImei, Imei!ReadImeiFails,
          Imei!WriteImei, Imei!WriteImeiDenied, Imei!WriteImeiFails, Imei!WriteMd5,
          Imei!WriteMd5NoSum, Imei!WriteMd5Fails, Imei!SearchStart,
          Imei!SearchStartFails, Imei!SearchStep, Imei!SearchEnd, Imei!Done, Imei!vars
    <2>2. QED
      BY <2>1 DEF Imei!FileNamed
  <1>2. disk' = disk => Imei!Others(disk)' = Imei!Others(before)'
    BY <1>1 DEF FileInv, Imei!Others
  <1>3. CASE pc = "parse"
    <2>1. disk' = disk
      BY <1>3, ParsingTouchesNothing
    <2>2. \/ path' = Imei!FileNamed
          \/ UNCHANGED <<path, command>>
      BY <1>3, ByPlace DEF Imei!ParseSingle, Imei!ParseCommand, Imei!ParseArgument,
          Imei!ParseHelp, Imei!ParseUnknown, Imei!ParseImei, Imei!ParseOffset,
          Imei!ParseEnd, Imei!parser, Imei!FileNamed
    <2>3. QED
      BY <1>1, <1>2, <2>1, <2>2 DEF FileInv
  <1>4. CASE Imei!WriteImei \/ Imei!WriteImeiFails
    <2>1. PICK content : disk' = Imei!Put(disk, content)
      BY <1>4 DEF Imei!WriteImei, Imei!WriteImeiFails
    <2>2. /\ UNCHANGED <<path, command>> /\ path = Imei!FileNamed
      <3>1. UNCHANGED <<path, command>> /\ pc = "write-imei"
        BY <1>4 DEF Imei!WriteImei, Imei!WriteImeiFails, Imei!parser
      <3>2. QED
        BY <3>1, Places DEF FileInv
    <2>3. /\ DOMAIN disk' \ {path} = DOMAIN disk \ {path}
          /\ \A f \in DOMAIN disk \ {path} : disk'[f] = disk[f]
      BY <2>1 DEF Imei!Put
    <2>4. [f \in DOMAIN disk' \ {path} |-> disk'[f]]
             = [f \in DOMAIN disk \ {path} |-> disk[f]]
      BY <2>3
    <2>5. Imei!Others(disk)' = Imei!Others(before)'
      BY <1>1, <2>2, <2>4 DEF FileInv, Imei!Others
    <2>6. QED
      BY <1>1, <2>2, <2>5 DEF FileInv
  <1>5. CASE pc # "parse" /\ ~(Imei!WriteImei \/ Imei!WriteImeiFails)
    <2>1. UNCHANGED <<disk, path, command>>
      BY <1>5, ByPlace DEF Imei!ReadImei, Imei!ReadImeiFails, Imei!WriteImeiDenied,
          Imei!WriteMd5, Imei!WriteMd5NoSum, Imei!WriteMd5Fails, Imei!SearchStart,
          Imei!SearchStartFails, Imei!SearchStep, Imei!SearchEnd, Imei!Done,
          Imei!vars, Imei!parser
    <2>2. QED
      BY <1>1, <1>2, <2>1 DEF FileInv
  <1>6. QED
    BY <1>3, <1>4, <1>5

ImeiInv  == ParseInv /\ WriteInv /\ SearchInv /\ FileInv
(* The invariant of the composed specification. *)
ImeiIInv == OnImei => ImeiInv

(* Every step keeps the invariant. *)
LEMMA ImeiInductive == ImeiIInv /\ [Next]_vars => ImeiIInv'
  <1>1. CASE OnImei /\ ImeiInv /\ Imei!Next /\ UNCHANGED <<subject, codec>>
    BY <1>1, ParseSteps, WriteSteps, SearchSteps, FileSteps DEF ImeiInv, ImeiIInv
  <1>2. CASE ~OnImei /\ UNCHANGED subject
    BY <1>2 DEF ImeiIInv, OnImei
  <1>3. CASE OnImei /\ ImeiInv /\ UNCHANGED vars
    <2>1. /\ UNCHANGED <<pc, offset, line, before, disk, md5, exit, next, optind, command,
                         path, imei, mem, ptr, search_size, found>>
      BY <1>3 DEF vars, tool
    <2>2. ParseInv'
      <3>1. \A cmd : Imei!Shaped(cmd)' = Imei!Shaped(cmd)
        BY <2>1 DEF Imei!Shaped, Imei!Given
      <3>2. Running(command)' = Running(command) /\ Imei!Shaped(command)' = Imei!Shaped(command)
        BY <2>1 DEF Running, Imei!Shaped, Imei!Given
      <3>3. QED
        BY <1>3, <2>1, <3>1, <3>2, SeenStable, RefusedStable
        DEF ImeiInv, ParseInv, Imei!NeedsFile, Imei!HasImei
    <2>3. WriteInv'
      <3>1. Written' = Written
        BY <2>1 DEF Written, Imei!Spliced, Imei!Before, Imei!Code, Imei!Encode, Imei!Target,
            Imei!Offset
      <3>2. QED
        BY <1>3, <2>1, <3>1 DEF ImeiInv, WriteInv
    <2>4. SearchInv'
      BY <1>3, <2>1, SearchStable DEF ImeiInv, SearchInv
    <2>5. FileInv'
      BY <1>3, <2>1 DEF ImeiInv, FileInv, Imei!Others, Imei!FileNamed
    <2>6. QED
      BY <2>2, <2>3, <2>4, <2>5 DEF ImeiIInv, ImeiInv
  <1>4. QED
    BY <1>1, <1>2, <1>3 DEF Next, ImeiIInv, OnImei, OnCodec, vars

(* The invariant holds. *)
LEMMA ImeiHolds == Spec => []ImeiIInv
  <1>1. Imei!Init => FileInv
    BY DEF Imei!Init, FileInv, Imei!Others
  <1>2. Init => ImeiIInv
    BY <1>1, ParseInit, WriteInit, SearchInit
    DEF Init, ImeiIInv, ImeiInv, OnImei, OnCodec
  <1>3. QED
    BY <1>2, ImeiInductive, PTL DEF Spec

(* nv_data-imei.c, main: for command lines of any length, a command runs   *)
(* only on a line of its shape (one element of any kind, the command, the  *)
(* options it has) and with the values given there, such a line is not     *)
(* answered with the usage, no file changes on any other line, and on such *)
(* a line none but the one its first element names.  That the first        *)
(* element is no option and the offset a number is not ensured.            *)
THEOREM CommandsAsAsked == Spec => []RunsWhatIsAsked
  <1>1. ImeiIInv => RunsWhatIsAsked
    <2>1. SUFFICES ASSUME ParseInv, FileInv PROVE Imei!RunsWhatIsAsked
      BY DEF ImeiIInv, ImeiInv, RunsWhatIsAsked
    <2>2. ASSUME NEW cmd \in Imei!NeedsFile, pc = cmd
          PROVE  /\ Imei!Shaped(cmd)
                 /\ \A j \in Imei!Given("i") : imei = <<line[j].imei>>
                 /\ \A j \in Imei!Given("o") : offset = <<line[j].offset>>
      <3>1. command = cmd /\ pc \notin {"parse", "exit"}
        BY <2>1, <2>2, Places, CommandTable
      <3>2. Imei!Shaped(cmd) /\ LineInv /\ SeenInv /\ next = Len(line)
        BY <2>1, <3>1 DEF ParseInv
      <3>3. QED
        BY <3>2, SeenAll
    <2>3. QED
      BY <2>1, <2>2 DEF Imei!RunsWhatIsAsked, ParseInv, FileInv
  <1>2. QED
    BY <1>1, ImeiHolds, PTL

(* nv_data-imei.c, write_imei: for any IMEI, offset and file, after an OK  *)
(* the IMEI can be read back, every other byte is what it was, and the     *)
(* .md5 file is that of the new content.                                   *)
THEOREM ImeiReadsBack == Spec => []WrittenReadsBack
  <1>1. ImeiIInv => WrittenReadsBack
    <2>1. SUFFICES ASSUME ParseInv, WriteInv, exit = "OK", command = "write-imei"
                   PROVE  LET new == disk[path]
                          IN  /\ Len(new) = Size
                              /\ Imei!Decode(SubSeq(new, Imei!Target + 1,
                                                    Imei!Target + Imei!CodeLength)) = imei[1]
                              /\ \A b \in 1..Size \ (Imei!Target + 1)..(Imei!Target + Imei!CodeLength) :
                                    b <= Len(Imei!Before) => new[b] = Imei!Before[b]
                              /\ path \in DOMAIN md5 /\ md5[path] = new
      BY DEF ImeiIInv, ImeiInv, WrittenReadsBack, Imei!WrittenReadsBack
    <2> DEFINE new == disk[path]
               o == Imei!Target
    <2>2. /\ new = Imei!Spliced(Imei!Before, Imei!Code, o) /\ Len(new) = Size
          /\ path \in DOMAIN md5 /\ md5[path] = new
      BY <2>1 DEF WriteInv, Written
    <2>3. Imei!Before \in Seq(Imei!Bytes)
      BY <2>1 DEF WriteInv, Imei!Before
    <2>4. imei[1] \in Seq(Int) /\ Len(imei[1]) = ImeiLength /\ o \in Nat
      BY <2>1, ValuesRight, CommandTable DEF ParseInv
    <2>5. /\ DOMAIN new = 1..Size /\ Size \in Nat /\ Size >= o + Imei!CodeLength
          /\ \A b \in 1..Imei!CodeLength : new[o + b] = Imei!Code[b]
          /\ \A b \in 1..Len(Imei!Before) :
                b \notin (o + 1)..(o + Imei!CodeLength) => new[b] = Imei!Before[b]
      BY <2>2, <2>3, <2>4, SplicedFacts, ImeiSizes
    <2>6. Imei!CodeLength \in Nat /\ Len(Imei!Before) \in Nat
      BY <2>3, ImeiSizes
    <2> HIDE DEF new, o
    <2>7. \A b \in 1..Imei!CodeLength : SubSeq(new, o + 1, o + Imei!CodeLength)[b] = new[o + b]
      BY <2>4, <2>5, <2>6
    <2>8. Imei!Decode(SubSeq(new, o + 1, o + Imei!CodeLength)) = imei[1]
      <3> DEFINE code == SubSeq(new, o + 1, o + Imei!CodeLength)
      <3>1. \A b \in 1..Imei!CodeLength : code[b] = Imei!Encode(imei[1])[b]
        BY <2>5, <2>7 DEF Imei!Code
      <3> HIDE DEF code
      <3>2. Imei!Decode(code) = imei[1]
        BY <2>4, <3>1, DecodeEncode
      <3>3. QED
        BY <3>2 DEF code
    <2>9. \A b \in 1..Size \ (o + 1)..(o + Imei!CodeLength) :
             b <= Len(Imei!Before) => new[b] = Imei!Before[b]
      BY <2>5, <2>6
    <2>10. QED
      BY <2>2, <2>8, <2>9 DEF new, o
  <1>2. QED
    BY <1>1, ImeiHolds, PTL

(* nv_data-imei.c, bruteforce_imei_offset: for any file and IMEI, no place *)
(* that holds the IMEI is missed, and nothing else is reported unless its  *)
(* code has a zero byte.                                                   *)
THEOREM EveryPlaceIsFound == Spec => []FindsEveryPlace
  <1>1. ImeiIInv => FindsEveryPlace
    <2>1. SUFFICES ASSUME ParseInv, WriteInv, SearchInv, exit = "OK", command = "bruteforce-imei"
                   PROVE  /\ Imei!Occurrences(disk[path], Imei!Code) \subseteq found
                          /\ (\A k \in 1..Imei!CodeLength : Imei!Code[k] # Imei!Nul) =>
                                \A p \in found : p + Imei!CodeLength <= Len(disk[path]) =>
                                   p \in Imei!Occurrences(disk[path], Imei!Code)
      BY DEF ImeiIInv, ImeiInv, FindsEveryPlace, Imei!FindsEveryPlace
    <2> DEFINE file == disk[path]
               L == Len(file)
               C == Imei!CodeLength
    <2>2. Searching /\ Imei!Hits = {} /\ disk = before
      BY <2>1 DEF SearchInv, WriteInv
    <2>3. /\ file \in Seq(Imei!Bytes)
          /\ ptr \in 0..(L + 1) /\ search_size \in Int /\ ptr + search_size \in {L, L + 1}
          /\ \A p \in found : p \in 0..L /\ Imei!Same(p)
          /\ \A p \in 0..(ptr - 1) : Imei!Same(p) => p \in found
      BY <2>1, <2>2 DEF Searching, WriteInv
    <2>4. PICK b \in Beyond : mem = file \o b
      BY <2>2 DEF Searching
    <2>5. L \in Nat /\ C \in Nat \ {0} /\ Len(Imei!Code) = C /\ DOMAIN Imei!Code = 1..C
      BY <2>3, ImeiSizes, CodeFacts
    <2>6. \A k \in 1..L : mem[k] = file[k]
      BY <2>3, <2>4, ImeiAssumption DEF Imei!FilesAssumption
    <2> HIDE DEF file, L, C
    <2>7. ASSUME NEW p \in 0..(L - C)
          PROVE  p \in Imei!Occurrences(file, Imei!Code)
                    <=> \A k \in 1..C : mem[p + k] = Imei!Code[k]
      <3>1. /\ DOMAIN SubSeq(file, p + 1, p + C) = 1..C
            /\ \A k \in 1..C : SubSeq(file, p + 1, p + C)[k] = file[p + k]
        BY <2>3, <2>5, <2>7 DEF L
      <3>2. \A k \in 1..C : mem[p + k] = file[p + k]
        BY <2>5, <2>6, <2>7
      <3>3. /\ SubSeq(file, p + 1, p + C) = [k \in 1..C |-> SubSeq(file, p + 1, p + C)[k]]
            /\ Imei!Code = [k \in 1..C |-> Imei!Code[k]]
        <4>1. SubSeq(file, p + 1, p + C) \in Seq(Imei!Bytes)
          BY <2>3, <2>5, <2>7 DEF L
        <4>2. \A s \in Seq(Imei!Bytes) : s = [k \in DOMAIN s |-> s[k]]
          OBVIOUS
        <4>3. SubSeq(file, p + 1, p + C) = [k \in 1..C |-> SubSeq(file, p + 1, p + C)[k]]
          BY <3>1, <4>1, <4>2
        <4>4. QED
          BY <4>3, CodeFacts DEF C
      <3>4. SubSeq(file, p + 1, p + C) = Imei!Code <=> \A k \in 1..C : mem[p + k] = Imei!Code[k]
        BY <3>1, <3>2, <3>3
      <3>5. QED
        BY <2>5, <2>7, <3>4 DEF Imei!Occurrences, L
    <2>8. ASSUME NEW p \in Imei!Occurrences(file, Imei!Code) PROVE p \in found
      <3>1. p \in 0..(L - C)
        BY <2>5, <2>8 DEF Imei!Occurrences, L
      <3>2. \A k \in 1..C : mem[p + k] = Imei!Code[k]
        BY <2>7, <2>8, <3>1
      <3>3. Imei!Same(p)
        BY <3>2 DEF Imei!Same, C
      <3>4. CASE p < ptr
        BY <2>3, <3>1, <3>3, <3>4, <2>5
      <3>5. CASE p >= ptr
        <4>1. p \in ptr..(ptr + search_size - 1) /\ mem[p + 1] = Imei!Code[1]
          BY <2>3, <2>5, <3>1, <3>2, <3>5
        <4>2. QED
          BY <2>2, <4>1 DEF Imei!Hits
      <3>6. QED
        BY <2>3, <2>5, <3>1, <3>4, <3>5
    <2>9. ASSUME \A k \in 1..C : Imei!Code[k] # Imei!Nul, NEW p \in found, p + C <= L
          PROVE  p \in Imei!Occurrences(file, Imei!Code)
      <3>1. p \in 0..(L - C) /\ Imei!Same(p)
        BY <2>3, <2>5, <2>9
      <3>2. \A k \in 1..C : \A j \in 1..(k - 1) : j \in 1..C
        BY <2>5
      <3>3. \A k \in 1..C : mem[p + k] = Imei!Code[k]
        BY <2>9, <3>1, <3>2 DEF Imei!Same, C
      <3>4. QED
        BY <2>7, <3>1, <3>3
    <2>10. QED
      BY <2>8, <2>9 DEF file, L, C
  <1>2. QED
    BY <1>1, ImeiHolds, PTL
=============================================================================
