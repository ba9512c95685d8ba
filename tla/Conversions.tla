---------------------------- MODULE Conversions -----------------------------
(***************************************************************************)
(* The code that converts data: nv_data-imei with its command line and its *)
(* encoding of IMEIs, and the builders and parsers of payloads.  One of    *)
(* the two runs; the variables of the other are Unused.                    *)
(***************************************************************************)
EXTENDS Integers, Sequences

CONSTANTS
    Tokens, MaxTokens, Sample, Runs, Files, Beyond, Size, ChunkSize,
    ImeiLength, UIntRange,                                        \* NvImei
    ByteRange, SizeRange, MaxSize, Header, Entry, Field, Lists    \* Codecs

VARIABLES
    subject, pc, offset,
    line, denied, before, disk, md5, exit, next, optind, command, path,
    imei, mem, ptr, search_size, found, shown,                    \* NvImei
    call, first, second, alloc, parts, length, inner, size, list, index,
    i, entry, at, n                                               \* Codecs

tool  == <<line, denied, before, disk, md5, exit, next, optind, command,
           path, imei, mem, ptr, search_size, found, shown>>
codec == <<call, first, second, alloc, parts, length, inner, size, list,
           index, i, entry, at, n>>
vars  == <<subject, pc, offset, tool, codec>>

Imei  == INSTANCE NvImei
Codec == INSTANCE Codecs

ASSUME ImeiAssumption  == Imei!SizesAssumption /\ Imei!FilesAssumption /\ Imei!LinesAssumption
ASSUME CodecAssumption == Codec!SizesAssumption /\ Codec!ListsAssumption

Unused == "unused"

NoTool ==
    /\ line = Unused /\ denied = Unused /\ before = Unused
    /\ disk = Unused /\ md5 = Unused /\ exit = Unused /\ next = Unused
    /\ optind = Unused /\ command = Unused /\ path = Unused
    /\ imei = Unused /\ mem = Unused /\ ptr = Unused
    /\ search_size = Unused /\ found = Unused /\ shown = Unused
NoCodec ==
    /\ call = Unused /\ first = Unused /\ second = Unused
    /\ alloc = Unused /\ parts = Unused /\ length = Unused
    /\ inner = Unused /\ size = Unused /\ list = Unused
    /\ index = Unused /\ i = Unused /\ entry = Unused
    /\ at = Unused /\ n = Unused

OnImei  == subject = "nv_data-imei"
OnCodec == subject = "codecs"

Init ==
    \/ OnImei /\ Imei!Init /\ NoCodec
    \/ OnCodec /\ Codec!Init /\ NoTool

Next ==
    \/ OnImei /\ Imei!Next /\ UNCHANGED <<subject, codec>>
    \/ OnCodec /\ Codec!Next /\ UNCHANGED <<subject, tool>>

Spec == Init /\ [][Next]_vars

-----------------------------------------------------------------------------
(* nv_data-imei.c main: a command runs exactly on the lines of one element *)
(* of any kind, COMMAND and the options it has, each once, with the values *)
(* given there; on any other line no file changes, and on these none but   *)
(* the one that the first element names, be it meant as an option or not.  *)
RunsWhatIsAsked == OnImei => Imei!RunsWhatIsAsked

(* nv_data-imei.c write_imei: after an OK the IMEI can be read back, every *)
(* other byte is what it was, and the .md5 file is that of the content.    *)
WrittenReadsBack == OnImei => Imei!WrittenReadsBack

(* nv_data-imei.c bruteforce_imei_offset: no place that holds the IMEI is  *)
(* missed, and nothing else is reported inside the file for an IMEI whose  *)
(* code has no zero byte.                                                  *)
FindsEveryPlace == OnImei => Imei!FindsEveryPlace

(* sms.c, sec.c, call.c, rfs.c: no builder but that of the RFS item copies *)
(* beyond the room it got, and that one by exactly the item.               *)
BuiltWithinRoom == OnCodec => Codec!BuiltWithinRoom

(* sms.c, sec.c, rfs.c, misc.c: a payload found lies inside its message,   *)
(* unless it is the IMSI, whose length is trusted, or the serial number of *)
(* a response that is not whole, whose parser gets no size.                *)
FoundInside == OnCodec => Codec!FoundInside

(* call.c, net.c, svc.c: the entry of a list is found where the modem put  *)
(* it, when it is all there and only then.                                 *)
EntryIsThere == OnCodec => Codec!EntryIsThere
=============================================================================
