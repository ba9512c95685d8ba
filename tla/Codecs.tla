------------------------------- MODULE Codecs -------------------------------
(***************************************************************************)
(* The builders and parsers of message payloads: call.c, gprs.c, misc.c,   *)
(* net.c, sec.c, sms.c, svc.c and the item functions of rfs.c.  Payloads   *)
(* are their sizes and the lengths written in them; constant fields are    *)
(* left out.  One call is made, on any arguments, from the first state on. *)
(*                                                                         *)
(* What lies behind the end of a message is whatever the memory holds.     *)
(***************************************************************************)
EXTENDS Integers, Sequences

CONSTANTS
    ByteRange,  \* 256: values of an unsigned char
    SizeRange,  \* 2^32: values of a size_t
    MaxSize,    \* sizes of payloads and messages tried
    Header,     \* size of a message header
    Entry,      \* size of a list entry without its text
    Field,      \* size of a text field
    Lists       \* the lists tried: where each entry begins, and the end

SizesAssumption ==
    /\ {ByteRange, SizeRange, MaxSize, Header, Entry, Field} \subseteq Nat \ {0}
    /\ MaxSize + Header < SizeRange /\ Field < ByteRange
ListsAssumption ==
    \A l \in Lists :
        /\ l \in Seq(Nat) /\ Len(l) \in 1..ByteRange /\ l[1] = 1
        /\ \A j, k \in DOMAIN l : j < k => l[j] < l[k]
        /\ \A k \in 1..(Len(l) - 1) : l[k + 1] - l[k] - Entry \in 0..(ByteRange - 1)

VARIABLES
    pc,        \* "call", "copy", "walk" or "done"
    call,      \* the function called
    first, second,   \* sizes of what it is given
    alloc,     \* bytes of the message built
    parts,     \* sizes still to be copied there
    length,    \* length byte of the message's header
    inner,     \* length byte of its first part
    size, list, index,   \* the message parsed, and the entry asked for
    i, offset, entry,    \* the walk: entry is where the last one begins
    at, n      \* result of an extraction: place (-1 for NULL) and size

built == <<first, second, alloc, parts, length, inner>>
walk  == <<list, index, i, offset, entry>>
vars  == <<pc, call, built, size, walk, at, n>>

Null == -1

(***************************************************************************)
(* The functions that allocate a message.  What each copies into it, and   *)
(* the room its size_setup function computes; an empty sequence means that *)
(* the arguments are refused.                                              *)
(***************************************************************************)
Builders == {"sms_send_msg", "sms_save_msg", "rsim_access", "burst_dtmf", "rfs_nv_read_item"}

Parts(c, a, b) ==
    CASE c = "sms_send_msg" -> IF a = 0 \/ b = 0 THEN <<>> ELSE <<Header, 1, a, b>>
      [] c = "sms_save_msg" -> IF b = 0 THEN <<>> ELSE <<Header, 1, a, b>>
      [] c = "rsim_access"  -> <<Header, a>>
      [] c = "burst_dtmf"   -> <<1, (a % ByteRange) * Entry>>
      [] c = "rfs_nv_read_item" -> IF a = 0 THEN <<>> ELSE <<Header, a>>

(* Slip: no room for the length of the SMSC. *)
SizeSetupNoSmscLength(c, a, b) ==
    CASE c \in {"sms_send_msg", "sms_save_msg"} -> Header + a + b
      [] c = "rsim_access" -> Header + a
      [] c = "burst_dtmf"  -> 1 + (a % ByteRange) * Entry
      [] c = "rfs_nv_read_item" -> Header

(* ipc_rfs_nv_data_item_size_setup adds its own zero, not nv_size. *)
SizeSetup(c, a, b) ==
    CASE c \in {"sms_send_msg", "sms_save_msg"} -> Header + 1 + a + b
      [] c = "rsim_access" -> Header + a
      [] c = "burst_dtmf"  -> 1 + (a % ByteRange) * Entry
      [] c = "rfs_nv_read_item" -> Header

(* The length bytes: of all that follows the header, of the first part. *)
LengthByte(c, a, b) ==
    CASE c \in {"sms_send_msg", "sms_save_msg"} -> (1 + a + b) % ByteRange
      [] c = "burst_dtmf" -> a % ByteRange
      [] OTHER -> 0

Build ==
    /\ pc = "call" /\ call \in Builders
    /\ IF Parts(call, first, second) = <<>>
       THEN pc' = "done" /\ UNCHANGED <<alloc, parts, length, inner>>
       ELSE /\ alloc' = SizeSetup(call, first, second)
            /\ parts' = Parts(call, first, second)
            /\ length' = LengthByte(call, first, second)
            /\ inner' = first % ByteRange
            /\ pc' = "copy"
    /\ UNCHANGED <<call, first, second, size, walk, at, n>>

(* One memcpy; n is where the next one begins. *)
Copy ==
    /\ pc = "copy" /\ parts # <<>>
    /\ n' = n + Head(parts) /\ parts' = Tail(parts)
    /\ UNCHANGED <<pc, call, first, second, alloc, length, inner, size, walk, at>>

Built ==
    /\ pc = "copy" /\ parts = <<>>
    /\ at' = 0 /\ pc' = "done"
    /\ UNCHANGED <<call, built, size, walk, n>>

(***************************************************************************)
(* The functions that fill in a structure: a text is cut to its field, its *)
(* length is stored beside it where the structure has room for one (not    *)
(* for apn, user name and password of a connection), and plmn is filled up.*)
(***************************************************************************)
Fillers == {"text_with_length", "text", "plmn"}

FillLength == IF first > Field THEN Field ELSE first

Fill ==
    /\ pc = "call" /\ call \in Fillers
    /\ n' = IF call = "plmn" THEN Field ELSE FillLength
    /\ length' = IF call = "text_with_length" THEN FillLength ELSE 0
    /\ at' = 0 /\ pc' = "done"
    /\ UNCHANGED <<call, first, second, alloc, parts, inner, size, walk>>

(***************************************************************************)
(* The functions that find the payload behind a header with a length.      *)
(* ipc_sms_incoming_msg_pdu_size_extract does not look at size first,      *)
(* ipc_misc_me_imsi_imsi_extract does not compare the length with it, and  *)
(* ipc_misc_me_sn_extract gets none.                                       *)
(***************************************************************************)
Extractors == {"sms_incoming_msg", "sms_svc_center_addr", "rsim_access_extract",
               "rfs_nv_write_item", "me_imsi", "me_sn"}

Room == (size - Header) % SizeRange

SizeExtract ==
    CASE call = "me_imsi" -> IF size < Header THEN 0 ELSE length
      [] call = "me_sn"   -> IF length > Field THEN 0 ELSE length
      [] call = "sms_incoming_msg" -> IF length > Room THEN 0 ELSE length
      [] OTHER -> IF size < Header \/ length > Room THEN 0 ELSE length

(* Slip: a message shorter than its header is not refused. *)
DataExtractAnySize ==
    IF call = "me_sn" THEN IF length > Field THEN Null ELSE Header
    ELSE IF call # "me_imsi" /\ (length = 0 \/ length > Room) THEN Null ELSE Header

DataExtract ==
    IF call = "me_sn" THEN IF length > Field THEN Null ELSE Header
    ELSE IF \/ size < Header
            \/ call # "me_imsi" /\ (length = 0 \/ length > Room)
         THEN Null ELSE Header

Extract ==
    /\ pc = "call" /\ call \in Extractors
    /\ n' = SizeExtract /\ at' = DataExtract /\ pc' = "done"
    /\ UNCHANGED <<call, built, size, walk>>

(***************************************************************************)
(* The lists: calls with their numbers, networks and screens without text. *)
(* list holds the places where the modem packed the entries, one behind    *)
(* the other, and the end of the last one; size may cut the message short. *)
(***************************************************************************)
Begin(k) == list[k]
Packed   == list[Len(list)]
Count    == Len(list) - 1
Text(k)  == Begin(k + 1) - Begin(k) - Entry

(* number_length as the walk reads it: of the entry that begins there, or  *)
(* anything once the walk has left the message.                            *)
NumberLength ==
    IF offset + Entry <= size
    THEN {Text(k) : k \in {j \in 1..Count : Begin(j) = offset}}
    ELSE 0..(ByteRange - 1)

ListStart ==
    /\ pc = "call" /\ call = "list_entry"
    /\ IF size < 1 \/ index >= Count      \* count_extract
       THEN pc' = "done" /\ UNCHANGED <<i, offset>>
       ELSE pc' = "walk" /\ i' = 0 /\ offset' = 1
    /\ UNCHANGED <<call, built, size, list, index, entry, at, n>>

ListStep ==
    /\ pc = "walk" /\ i < index + 1
    /\ entry' = offset
    /\ \E text \in NumberLength : offset' = offset + Entry + text
    /\ i' = (i + 1) % ByteRange
    /\ UNCHANGED <<pc, call, built, size, list, index, at, n>>

(* Slip: the text of the entry is not counted. *)
ListEndNoText ==
    /\ pc = "walk" /\ i >= index + 1
    /\ at' = IF entry + Entry > size THEN Null ELSE entry
    /\ pc' = "done"
    /\ UNCHANGED <<call, built, size, walk, n>>

ListEnd ==
    /\ pc = "walk" /\ i >= index + 1
    /\ at' = IF offset > size THEN Null ELSE entry
    /\ pc' = "done"
    /\ UNCHANGED <<call, built, size, walk, n>>

Init ==
    /\ pc = "call" /\ alloc = 0 /\ parts = <<>> /\ inner = 0
    /\ i = 0 /\ offset = 0 /\ entry = 0 /\ at = Null /\ n = 0
    /\ \/ /\ call \in Builders \union Fillers
          /\ first \in 0..MaxSize /\ second \in 0..MaxSize
          /\ length = 0 /\ size = 0 /\ list = <<>> /\ index = 0
       \/ /\ call \in Extractors /\ size \in 0..MaxSize
          /\ length \in 0..(ByteRange - 1)
          /\ first = 0 /\ second = 0 /\ list = <<>> /\ index = 0
       \/ /\ call = "list_entry" /\ list \in Lists
          /\ size \in 0..Packed /\ index \in 0..Count
          /\ first = 0 /\ second = 0 /\ length = 0

Done == pc = "done" /\ UNCHANGED vars

Next == Build \/ Copy \/ Built \/ Fill \/ Extract
        \/ ListStart \/ ListStep \/ ListEnd \/ Done

Spec == Init /\ [][Next]_vars

(***************************************************************************)
(* Properties.                                                             *)
(***************************************************************************)

(* sms.c, sec.c, call.c, rfs.c: no builder copies beyond the room it got,  *)
(* and it fills that room; only the item response of rfs.c, whose size     *)
(* leaves out the item, overruns, by exactly the item.  Texts cut to their *)
(* field are stored with the length they have there.                       *)
BuiltWithinRoom ==
    /\ call \in Builders \ {"rfs_nv_read_item"} =>
          /\ n <= alloc
          /\ pc = "done" /\ at # Null => n = alloc
    /\ call = "rfs_nv_read_item" /\ at # Null => n = alloc + first
    /\ pc = "done" /\ call = "text_with_length" => length = n /\ n <= Field

(* sms.c, sec.c, rfs.c, misc.c: a payload found lies inside its message,   *)
(* and its size and its place are found together, but for three of the     *)
(* parsers.  ipc_misc_me_imsi_imsi_extract trusts the length and may read  *)
(* beyond any message.  ipc_misc_me_sn_extract gets no size and may read   *)
(* beyond a message shorter than a whole response, header and field; in a  *)
(* whole one it stays inside.  ipc_sms_incoming_msg_pdu_size_extract may   *)
(* find a size without a place in a message shorter than its header.  The  *)
(* first two also return an empty string, the others none.                 *)
FoundInside ==
    pc = "done" /\ call \in Extractors =>
        /\ at # Null => \/ at + n <= size
                        \/ call = "me_imsi"
                        \/ call = "me_sn" /\ size < Header + Field
        /\ at # Null /\ call \notin {"me_imsi", "me_sn"} => n > 0
        /\ at = Null => n = 0 \/ (call = "sms_incoming_msg" /\ size < Header)

(* call.c, net.c, svc.c: the entry a walk returns is the one the modem     *)
(* packed under that index, to the last byte of its text inside the        *)
(* message, whatever the walk read behind it; an entry that is all there   *)
(* is returned.                                                            *)
EntryIsThere ==
    pc = "done" /\ call = "list_entry" =>
        IF index < Count /\ Begin(index + 2) <= size
        THEN at = Begin(index + 1) ELSE at = Null
=============================================================================
